---------------------------- MODULE Spec2Model ----------------------------
(***************************************************************************)
(* Model of the job cache of server.py: the deduplicator/sorter            *)
(* (dedupe_and_sort_jobs), the cache store (update_cache_snapshot,         *)
(* persist_jobs_cache, load_jobs_cache_from_disk), the refresh loop        *)
(* (periodic_scrape_loop, run_full_scrape), the list request handler       *)
(* (api_jobs) and the detail extractor (fetch_job_details).                *)
(*                                                                         *)
(* Encoding of the data.  A job record is [url, title, lastDate, source].  *)
(* url and title are strings, "" standing for an empty or absent value     *)
(* (Python's `or` treats both alike).  lastDate is an ISO date yyyy-mm-dd  *)
(* written as the number yyyymmdd, whose numeric order is the order of the *)
(* ISO strings the code compares; the empty string is written NoDate.      *)
(***************************************************************************)
EXTENDS Integers, Sequences, FiniteSets, TLC

VARIABLES
    \* server.py:99-103, the globals of the cache
    jobs_cache, jobs_loaded, jobs_loading, scrape_thread_started, scrape_lock,
    \* the file at CACHE_PERSIST_PATH: [shape, jobs]
    file,
    \* the pages of the source site: site[p] is what page p parses to
    site,
    \* "init" until the module-level load_jobs_cache_from_disk() has run
    boot,
    \* position of every thread (request handlers and refresh loops)
    pc,
    \* the frame of a thread's call of update_cache_snapshot
    upd,
    \* the locals of a request handler (api_jobs)
    rd,
    \* the locals of a refresh loop (periodic_scrape_loop, run_full_scrape)
    lp,
    \* history: the (snapshot, loaded) pair of the latest completed install
    lastInstall,
    \* input and results of dedupe_and_sort_jobs in SpecDedupe
    L, trunc, once, twice, stage,
    \* the cache, the query arguments and the response of api_jobs in SpecPage
    page_in, query, resp, pstage,
    \* the request, the page and the result of fetch_job_details in SpecDetails
    det_in, details, dstage,
    \* the page, the arguments and the records of a page parser in SpecScrape
    scr_in, scr_out, sstage

cacheVars == <<jobs_cache, jobs_loaded, jobs_loading, scrape_thread_started,
               scrape_lock, file, site, boot, pc, upd, rd, lp, lastInstall>>
dedupeVars == <<L, trunc, once, twice, stage>>
pageVars == <<page_in, query, resp, pstage>>
detailVars == <<det_in, details, dstage>>
scrapeVars == <<scr_in, scr_out, sstage>>
pureVars == <<dedupeVars, pageVars, detailVars, scrapeVars>>
vars == <<cacheVars, pureVars>>

(***************************************************************************)
(* Bounds of the model.                                                    *)
(***************************************************************************)
\* Longest input list given to dedupe_and_sort_jobs in SpecDedupe.
MaxLen == 3
\* Number of source pages of a refresh cycle (59 in run_full_scrape).
NumPages == 2
\* Number of threads that handle list requests, one request after another.
NumHandlers == 1
\* Number of threads whose first list requests arrive together in SpecRace.
NumRacers == 2
\* Number of refresh cycles a loop runs before the model stops following it.
MaxCycles == 2
\* server.py:113 sets 6000; scaled so that truncation happens.
MAX_JOBS_TO_CACHE == 2

(***************************************************************************)
(* Dates.                                                                  *)
(***************************************************************************)
\* The empty lastDate "".
NoDate == 0
\* "9999-12-31", the key default_last_date_key gives an empty lastDate.
SentinelKey == 99991231

(***************************************************************************)
(* dedupe_and_sort_jobs                                                    *)
(***************************************************************************)
default_last_date_key(job) ==
    IF job.lastDate # NoDate THEN job.lastDate ELSE SentinelKey

\* key = job.get("url") or job.get("title")
JobKey(job) == IF job.url # "" THEN job.url ELSE job.title

\* last-seen wins: a later record replaces the kept one (faulty variant of Keep)
KeepLast(seen, deduped, job) ==
    IF JobKey(job) = "" THEN deduped
    ELSE IF JobKey(job) \in seen
         THEN [i \in 1..Len(deduped) |->
                 IF JobKey(deduped[i]) = JobKey(job) THEN job ELSE deduped[i]]
         ELSE Append(deduped, job)

\* no `key in seen` test: every record with a key is kept (faulty variant of Keep)
KeepAll(seen, deduped, job) ==
    IF JobKey(job) = "" THEN deduped ELSE Append(deduped, job)

\* no `not key` test: a record without a key is kept (faulty variant of Keep)
KeepKeyless(seen, deduped, job) ==
    IF JobKey(job) \in seen THEN deduped ELSE Append(deduped, job)

\* One iteration of the loop of dedupe_and_sort_jobs: the deduped list after
\* `job`, given the keys seen so far.
Keep(seen, deduped, job) ==
    IF JobKey(job) = "" \/ JobKey(job) \in seen
    THEN deduped
    ELSE Append(deduped, job)

RECURSIVE DedupeFrom(_, _, _, _)
DedupeFrom(jobs, i, seen, deduped) ==
    IF i > Len(jobs) THEN deduped
    ELSE DedupeFrom(jobs, i + 1,
                    IF JobKey(jobs[i]) = "" THEN seen
                    ELSE seen \cup {JobKey(jobs[i])},
                    Keep(seen, deduped, jobs[i]))

Dedupe(jobs) == DedupeFrom(jobs, 1, {}, <<>>)

\* insertion before the records of equal key: an unstable sort (faulty variant of Insert)
InsertBeforeTies(sorted, job) ==
    LET n == Cardinality({i \in 1..Len(sorted) :
                 default_last_date_key(sorted[i]) < default_last_date_key(job)})
    IN  SubSeq(sorted, 1, n) \o <<job>> \o SubSeq(sorted, n + 1, Len(sorted))

\* list.sort is stable: a record goes after every record whose key is not
\* greater than its own.  `sorted` is ordered by key.
Insert(sorted, job) ==
    LET n == Cardinality({i \in 1..Len(sorted) :
                 default_last_date_key(sorted[i]) <= default_last_date_key(job)})
    IN  SubSeq(sorted, 1, n) \o <<job>> \o SubSeq(sorted, n + 1, Len(sorted))

RECURSIVE SortFrom(_, _, _)
SortFrom(jobs, i, sorted) ==
    IF i > Len(jobs) THEN sorted
    ELSE SortFrom(jobs, i + 1, Insert(sorted, jobs[i]))

\* deduped.sort(key=default_last_date_key)
SortByLastDate(jobs) == SortFrom(jobs, 1, <<>>)

dedupe_and_sort_jobs(jobs) == SortByLastDate(Dedupe(jobs))

\* no truncation (faulty variant of Truncate)
TruncateNot(jobs) == jobs

\* jobs[:MAX_JOBS_TO_CACHE]
Truncate(jobs) ==
    SubSeq(jobs, 1, IF Len(jobs) < MAX_JOBS_TO_CACHE THEN Len(jobs)
                    ELSE MAX_JOBS_TO_CACHE)

\* dedupe_and_sort_jobs(jobs)[:MAX_JOBS_TO_CACHE]
Snapshot(jobs) == Truncate(dedupe_and_sort_jobs(jobs))

(***************************************************************************)
(* The data the server meets: source pages and the file found at start     *)
(***************************************************************************)
Rec(u, t, d, s) == [url |-> u, title |-> t, lastDate |-> d, source |-> s]

Pages == 1..NumPages
PageName == <<"p1", "p2", "p3", "p4">>
PageUrl == <<"b", "c", "d", "e">>

\* A page whose first row is a post every page lists (url "a") and whose
\* second row is a post of its own: dated on even pages, undated on odd ones.
PageA(p) ==
    << Rec("a", "T", IF p % 2 = 1 THEN 20260401 ELSE 20260315, PageName[p]),
       Rec(PageUrl[p], "T", IF p % 2 = 1 THEN NoDate ELSE 20260315, PageName[p]) >>

\* A page whose first block has neither url nor title and whose second has
\* no url and the title "a" (the key of the post with url "a").
PageB(p) ==
    << Rec("", "", 20260315, PageName[p]),
       Rec("", "a", SentinelKey, PageName[p]) >>

PageChoices(p) == {PageA(p), PageB(p)}

\* A list as an older run or another writer may have left it in the file:
\* not sorted, with a repeated key, a record without key, and more keys than
\* the cache keeps.
OldJobs ==
    << Rec("z", "T", NoDate, "old"), Rec("a", "T", 20260315, "old"),
       Rec("", "", 20260315, "old"), Rec("z", "T2", 20260401, "old"),
       Rec("y", "T", 20260401, "old"), Rec("x", "T", 20260315, "old") >>

\* The JSON text of a record: its members, name and value, in the order of
\* the dict.
JsonFields == <<"url", "title", "lastDate", "source">>

\* json.dump of a list of records (server.py:143)
json_dump(jobs) ==
    [i \in 1..Len(jobs) |->
        [n \in 1..Len(JsonFields) |-> <<JsonFields[n], jobs[i][JsonFields[n]]>>]]

\* a parse that loses the member lastDate (faulty variant of json_load_job)
json_load_job_undated(obj) ==
    [k \in {obj[n][1] : n \in 1..Len(obj)} |->
        IF k = "lastDate" THEN NoDate
        ELSE obj[CHOOSE n \in 1..Len(obj) : obj[n][1] = k][2]]

\* json.load of one object: a dict with the members' names as keys
json_load_job(obj) ==
    [k \in {obj[n][1] : n \in 1..Len(obj)} |->
        obj[CHOOSE n \in 1..Len(obj) : obj[n][1] = k][2]]

\* json.load of a list of objects (server.py:153)
json_load(text) == [i \in 1..Len(text) |-> json_load_job(text[i])]

\* shape: "absent" (no file), "invalid" (not JSON), "object" ({"jobs": [...]}),
\* "array" (a bare list of records), "object_nojobs" (an object without the
\* member "jobs"), "object_badjobs" (an object whose "jobs" is not a list),
\* "array_badrecords" (a list with an element that is not an object) or
\* "scalar" (JSON that is neither object nor list); jobs: the JSON text of
\* the list of records; written: this process wrote it
File(shape, jobs, written) ==
    [shape |-> shape, jobs |-> jobs, written |-> written, failed |-> FALSE]

\* the file after a write of this process that raised (failed is history:
\* the latest call of persist_jobs_cache did not complete)
FailedWrite(f) == [f EXCEPT !.failed = TRUE]

InitFiles ==
    { File("absent", <<>>, FALSE), File("invalid", <<>>, FALSE),
      File("object", json_dump(OldJobs), FALSE),
      File("array", json_dump(OldJobs), FALSE),
      File("object_nojobs", <<>>, FALSE), File("object_badjobs", <<>>, FALSE),
      File("array_badrecords", <<>>, FALSE), File("scalar", <<>>, FALSE) }

(***************************************************************************)
(* Threads                                                                 *)
(***************************************************************************)
\* the request threads of the largest pool a specification uses; a thread
\* that a specification's pool does not have stays at "none"
MaxHandlers == IF NumRacers > NumHandlers THEN NumRacers ELSE NumHandlers
Handlers == 1..MaxHandlers
\* the refresh loop started by handler k is thread MaxHandlers + k
LoopOf(k) == MaxHandlers + k
Loops == {LoopOf(k) : k \in Handlers}
Threads == Handlers \cup Loops
NoThread == 0

NoFrame == [jobs |-> <<>>, deduped |-> <<>>, mark |-> FALSE]
Frame(jobs, mark) == [jobs |-> jobs, deduped |-> Snapshot(jobs), mark |-> mark]

NoRead == [current_jobs |-> <<>>, loaded |-> FALSE, loading_flag |-> FALSE,
           deduped |-> <<>>, page_jobs |-> <<>>, next_offset |-> <<>>,
           inst |-> <<>>]
NoLoop == [cycle |-> 0, page |-> 0, local_jobs |-> <<>>, outcomes |-> <<>>,
           start |-> <<>>]

Pair(jobs, loaded) == [jobs |-> jobs, loaded |-> loaded]

(***************************************************************************)
(* Initial state: the module has been imported up to line 188.             *)
(***************************************************************************)
\* a pool of n request threads waiting for requests, no refresh loop running
PoolOf(n) ==
    [t \in Threads |-> IF t \in 1..n THEN "idle"
                       ELSE IF t \in Handlers THEN "none" ELSE "off"]

InitGlobals ==
    /\ jobs_cache = <<>>
    /\ jobs_loaded = FALSE
    /\ jobs_loading = FALSE
    /\ scrape_thread_started = FALSE
    /\ scrape_lock = NoThread
    /\ boot = "init"
    /\ upd = [t \in Threads |-> NoFrame]
    /\ rd = [h \in Handlers |-> NoRead]
    /\ lp = [r \in Loops |-> NoLoop]
    /\ lastInstall = Pair(<<>>, FALSE)

InitCache ==
    /\ InitGlobals
    /\ pc = PoolOf(NumHandlers)

NoArg == [kind |-> "absent", val |-> 0]
NoResponse == [jobs |-> <<>>, next_offset |-> <<>>]

\* api_jobs is not followed as a function
PageOff ==
    /\ page_in = <<>>
    /\ query = [offset |-> NoArg, limit |-> NoArg]
    /\ resp = NoResponse
    /\ pstage = "off"

\* dedupe_and_sort_jobs is not followed as a function
DedupeOff ==
    /\ L = <<>>
    /\ trunc = FALSE
    /\ once = <<>>
    /\ twice = <<>>
    /\ stage = "off"

\* a page without content
NoPage == [tables |-> <<>>, lines |-> <<>>, sections |-> <<>>, elements |-> <<>>]

\* fetch_job_details is not followed as a function
DetailsOff ==
    /\ det_in = [url |-> "", outcome |-> "ok", page |-> NoPage]
    /\ details = <<>>
    /\ dstage = "off"

\* no call of a page parser is followed as a function
None == [given |-> FALSE, words |-> <<>>]
Str(words) == [given |-> TRUE, words |-> words]

NoScrape ==
    [parser |-> "none", outcome |-> "ok", name |-> "", state |-> None,
     found |-> "none", page |-> <<>>]

ScrapeOff ==
    /\ scr_in = NoScrape
    /\ scr_out = <<>>
    /\ sstage = "off"

InitPure ==
    /\ DedupeOff
    /\ PageOff
    /\ DetailsOff
    /\ ScrapeOff

Init ==
    /\ InitCache
    /\ InitPure
    /\ file \in InitFiles
    /\ site \in {s \in [Pages -> UNION {PageChoices(p) : p \in Pages}] :
                   \A p \in Pages : s[p] \in PageChoices(p)}

(***************************************************************************)
(* load_jobs_cache_from_disk, called once at import (server.py:189)        *)
(***************************************************************************)
\* server.py:151-160: the file is there, json.load returns a list or an
\* object, cached_jobs (payload, or payload.get("jobs", [])) is a list and
\* dedupe_and_sort_jobs does not raise on its elements
Loadable(f) == f.shape \in {"object", "array", "object_nojobs"}

\* cached_jobs = payload, or payload.get("jobs", []), and
\* deduped = dedupe_and_sort_jobs(cached_jobs)[:MAX_JOBS_TO_CACHE]
HydrateSnapshot(f) == Snapshot(json_load(f.jobs))

Hydrate ==
    /\ boot = "init"
    /\ boot' = "ready"
    /\ IF Loadable(file)
       THEN /\ jobs_cache' = HydrateSnapshot(file)
            /\ jobs_loaded' = TRUE
            /\ lastInstall' = Pair(jobs_cache', jobs_loaded')
       ELSE UNCHANGED <<jobs_cache, jobs_loaded, lastInstall>>
    /\ UNCHANGED <<jobs_loading, scrape_thread_started, scrape_lock, file, site,
                   pc, upd, rd, lp, pureVars>>

(***************************************************************************)
(* update_cache_snapshot (server.py:171-178), the frame upd[t] holding     *)
(* jobs, deduped and mark_loaded.  The caller's step computes deduped.     *)
(***************************************************************************)
\* a lock that never blocks (faulty variant of LockFree)
LockIgnored(t) == TRUE

\* `with scrape_lock:` can be entered
LockFree(t) == scrape_lock = NoThread

\* the lock stays with the thread after the block (faulty variant of
\* LockReleased)
LockKept(t) == t

\* the end of `with scrape_lock:`
LockReleased(t) == NoThread

\* where the caller continues after update_cache_snapshot returns
Return(t, frame) ==
    IF t \in Handlers THEN "read1"
    ELSE IF frame.mark THEN "finally"
    ELSE IF lp[t].page < NumPages THEN "scrape" ELSE "final"

\* with scrape_lock: jobs_cache = deduped
UpdSwap1(t) ==
    /\ pc[t] = "swap1"
    /\ LockFree(t)
    /\ scrape_lock' = t
    /\ jobs_cache' = upd[t].deduped
    /\ pc' = [pc EXCEPT ![t] = "swap2"]
    /\ UNCHANGED <<jobs_loaded, jobs_loading, scrape_thread_started, file, site,
                   boot, upd, rd, lp, lastInstall, pureVars>>

\* jobs_loaded = mark_loaded, and the lock is released
UpdSwap2(t) ==
    /\ pc[t] = "swap2"
    /\ jobs_loaded' = upd[t].mark
    /\ scrape_lock' = LockReleased(t)
    /\ lastInstall' = Pair(jobs_cache, jobs_loaded')
    /\ pc' = [pc EXCEPT ![t] = "persist"]
    /\ UNCHANGED <<jobs_cache, jobs_loading, scrape_thread_started, file, site,
                   boot, upd, rd, lp, pureVars>>

\* persist_jobs_cache(deduped) (server.py:135-145): the file is rewritten, or
\* open() fails and the file is as before, or the write fails part-way and
\* leaves no JSON; the exception is caught in each case.
PersistResults(f, deduped) ==
    { File("object", json_dump(deduped), TRUE), FailedWrite(f),
      FailedWrite(File("invalid", <<>>, TRUE)) }

\* the write was done: the file holds the JSON text of deduped
Written(f, deduped) == f = File("object", json_dump(deduped), TRUE)

\* the exception of a failed write leaves update_cache_snapshot and ends
\* the caller's work (faulty variant of PersistReturn)
PersistRaises(t, frame, f) ==
    IF Written(f, frame.deduped) THEN Return(t, frame)
    ELSE IF t \in Handlers THEN "done" ELSE "finally"

\* server.py:144-145: `except Exception` logs; persist_jobs_cache returns
\* in every case and so does update_cache_snapshot
PersistReturn(t, frame, f) == Return(t, frame)

UpdPersist(t) ==
    /\ pc[t] = "persist"
    /\ \E f \in PersistResults(file, upd[t].deduped) :
          /\ file' = f
          /\ pc' = [pc EXCEPT ![t] = PersistReturn(t, upd[t], f)]
    /\ upd' = [upd EXCEPT ![t] = NoFrame]
    /\ lp' = IF t \in Loops /\ ~upd[t].mark
             THEN [lp EXCEPT ![t].page = @ + 1]
             ELSE lp
    /\ UNCHANGED <<jobs_cache, jobs_loaded, jobs_loading, scrape_thread_started,
                   scrape_lock, site, boot, rd, lastInstall, pureVars>>

(***************************************************************************)
(* The query arguments and the window of api_jobs (server.py:1162-1176,    *)
(* 1198-1209).  An argument is absent, not a number ("bad") or an integer. *)
(***************************************************************************)
\* limit = 50 when the argument is absent, not a number or out of range
DefaultLimit == 50

\* offset = int(request.args.get('offset', 0)), negative or unparsable -> 0
ParseOffset(arg) ==
    IF arg.kind = "int" /\ arg.val >= 0 THEN arg.val ELSE 0

\* limit = int(request.args.get('limit', 50)); <= 0, > MAX_JOBS_TO_CACHE or
\* unparsable -> 50
ParseLimit(arg) ==
    IF arg.kind = "int" /\ arg.val > 0 /\ arg.val <= MAX_JOBS_TO_CACHE
    THEN arg.val
    ELSE DefaultLimit

Min(a, b) == IF a < b THEN a ELSE b

\* a slice that takes the element at index `end` too (faulty variant of PySlice)
PySliceInclusive(q, start, end) ==
    LET lo == Min(start, Len(q))
        hi == Min(end + 1, Len(q))
    IN  [k \in 1..(IF hi > lo THEN hi - lo ELSE 0) |-> q[lo + k]]

\* q[start:end] of Python for start, end >= 0: the elements at the 0-based
\* indices start .. end-1 that exist, none when start >= end
PySlice(q, start, end) ==
    LET lo == Min(start, Len(q))
        hi == Min(end, Len(q))
    IN  [k \in 1..(IF hi > lo THEN hi - lo ELSE 0) |-> q[lo + k]]

\* server.py:1198-1209
ApiJobsWindow(current_jobs, offset, limit) ==
    LET deduped == dedupe_and_sort_jobs(current_jobs)
        total == Len(deduped)
        start == offset
        end == Min(offset + limit, total)
    IN  [jobs |-> PySlice(deduped, start, end),
         next_offset |-> IF end < total THEN <<end>> ELSE <<>>]

\* the query arguments a request can carry
OffsetArgs ==
    {NoArg, [kind |-> "bad", val |-> 0]}
    \cup {[kind |-> "int", val |-> v] : v \in (-1)..(MAX_JOBS_TO_CACHE + 2)}
LimitArgs ==
    {NoArg, [kind |-> "bad", val |-> 0]}
    \cup {[kind |-> "int", val |-> v] :
             v \in (-1)..(MAX_JOBS_TO_CACHE + 1) \cup {DefaultLimit}}

(***************************************************************************)
(* api_jobs (server.py:1147-1217) and ensure_scrape_thread_started         *)
(***************************************************************************)
\* what a fetch-and-parse of a page can end in: the page's records, a failed
\* requests.get (caught in the parser, which returns []), or an exception
\* raised while parsing (it leaves the parser)
Outcomes == {"ok", "nofetch", "raise"}

PageJobs(p, outcome) == IF outcome = "ok" THEN site[p] ELSE <<>>

\* the request arrives; `if scrape_thread_started: return`
HStart(h) ==
    /\ boot = "ready"
    /\ pc[h] = "idle"
    /\ pc' = [pc EXCEPT ![h] = IF scrape_thread_started THEN "check_empty"
                                ELSE "ens_set"]
    /\ UNCHANGED <<jobs_cache, jobs_loaded, jobs_loading, scrape_thread_started,
                   scrape_lock, file, site, boot, upd, rd, lp, lastInstall,
                   pureVars>>

\* scrape_thread_started = True; threading.Thread(...).start()
HEnsSet(h) ==
    /\ pc[h] = "ens_set"
    /\ scrape_thread_started' = TRUE
    /\ pc' = [pc EXCEPT ![h] = "check_empty", ![LoopOf(h)] = "cycle_start"]
    /\ UNCHANGED <<jobs_cache, jobs_loaded, jobs_loading, scrape_lock, file,
                   site, boot, upd, rd, lp, lastInstall, pureVars>>

\* `if not jobs_cache:` read without the lock
HCheckEmpty(h) ==
    /\ pc[h] = "check_empty"
    /\ pc' = [pc EXCEPT ![h] = IF jobs_cache = <<>> THEN "quick" ELSE "read1"]
    /\ UNCHANGED <<jobs_cache, jobs_loaded, jobs_loading, scrape_thread_started,
                   scrape_lock, file, site, boot, upd, rd, lp, lastInstall,
                   pureVars>>

\* the quick scrape of the government-jobs page (page 1) and the call
\* update_cache_snapshot(quick_jobs, mark_loaded=False); an exception of the
\* scrape gives quick_jobs = []
HQuick(h) ==
    /\ pc[h] = "quick"
    /\ \E o \in Outcomes : upd' = [upd EXCEPT ![h] = Frame(PageJobs(1, o), FALSE)]
    /\ pc' = [pc EXCEPT ![h] = "swap1"]
    /\ UNCHANGED <<jobs_cache, jobs_loaded, jobs_loading, scrape_thread_started,
                   scrape_lock, file, site, boot, rd, lp, lastInstall, pureVars>>

\* with scrape_lock: current_jobs = list(jobs_cache)
HRead1(h) ==
    /\ pc[h] = "read1"
    /\ LockFree(h)
    /\ scrape_lock' = h
    /\ rd' = [rd EXCEPT ![h].current_jobs = jobs_cache]
    /\ pc' = [pc EXCEPT ![h] = "read2"]
    /\ UNCHANGED <<jobs_cache, jobs_loaded, jobs_loading, scrape_thread_started,
                   file, site, boot, upd, lp, lastInstall, pureVars>>

\* loaded = jobs_loaded, and the lock is released
HRead2(h) ==
    /\ pc[h] = "read2"
    /\ scrape_lock' = LockReleased(h)
    /\ rd' = [rd EXCEPT ![h].loaded = jobs_loaded, ![h].inst = lastInstall]
    /\ pc' = [pc EXCEPT ![h] = "respond"]
    /\ UNCHANGED <<jobs_cache, jobs_loaded, jobs_loading, scrape_thread_started,
                   file, site, boot, upd, lp, lastInstall, pureVars>>

\* the queries of the requests the server is followed under: no arguments,
\* the first record, the second record
Queries ==
    { [offset |-> NoArg, limit |-> NoArg],
      [offset |-> [kind |-> "int", val |-> 0], limit |-> [kind |-> "int", val |-> 1]],
      [offset |-> [kind |-> "int", val |-> 1], limit |-> [kind |-> "int", val |-> 1]] }

\* deduped = dedupe_and_sort_jobs(current_jobs); the window of the request's
\* offset and limit is cut and the response is built
HRespond(h) ==
    /\ pc[h] = "respond"
    /\ \E q \in Queries :
          LET window == ApiJobsWindow(rd[h].current_jobs, ParseOffset(q.offset),
                                      ParseLimit(q.limit))
          IN  rd' = [rd EXCEPT
                       ![h].deduped = dedupe_and_sort_jobs(rd[h].current_jobs),
                       ![h].page_jobs = window.jobs,
                       ![h].next_offset = window.next_offset,
                       ![h].loading_flag = (~rd[h].loaded) \/ jobs_loading]
    /\ pc' = [pc EXCEPT ![h] = "done"]
    /\ UNCHANGED <<jobs_cache, jobs_loaded, jobs_loading, scrape_thread_started,
                   scrape_lock, file, site, boot, upd, lp, lastInstall, pureVars>>

\* the response is sent; the thread is free for the next request
HReturn(h) ==
    /\ pc[h] = "done"
    /\ rd' = [rd EXCEPT ![h] = NoRead]
    /\ pc' = [pc EXCEPT ![h] = "idle"]
    /\ UNCHANGED <<jobs_cache, jobs_loaded, jobs_loading, scrape_thread_started,
                   scrape_lock, file, site, boot, upd, lp, lastInstall, pureVars>>

(***************************************************************************)
(* periodic_scrape_loop (server.py:191-211), run_full_scrape (214-344)     *)
(***************************************************************************)
\* an exception of a page leaves run_full_scrape (faulty variant of AfterRaise)
AfterRaiseAbort(page) == "finally"

\* the page's `except Exception` logs, and the loop goes on with the next page
AfterRaise(page) == IF page < NumPages THEN "scrape" ELSE "final"

\* jobs_loading = True; run_full_scrape() starts with local_jobs = []
LCycleStart(r) ==
    /\ pc[r] = "cycle_start"
    /\ jobs_loading' = TRUE
    /\ lp' = [lp EXCEPT ![r] = [cycle |-> IF @.cycle <= MaxCycles
                                           THEN @.cycle + 1 ELSE @.cycle,
                                page |-> 1,
                                local_jobs |-> <<>>, outcomes |-> <<>>,
                                start |-> jobs_cache]]
    /\ pc' = [pc EXCEPT ![r] = "scrape"]
    /\ UNCHANGED <<jobs_cache, jobs_loaded, scrape_thread_started, scrape_lock,
                   file, site, boot, upd, rd, lastInstall, pureVars>>

\* one page of the fixed order: page_jobs = scrape_...(url, ...);
\* local_jobs.extend(page_jobs); update_cache_snapshot(local_jobs, False)
LScrape(r) ==
    /\ pc[r] = "scrape"
    /\ \E o \in Outcomes :
         LET p == lp[r].page
             acc == lp[r].local_jobs \o PageJobs(p, o)
         IN  IF o = "raise"
             THEN /\ lp' = [lp EXCEPT ![r].outcomes = Append(@, o),
                                      ![r].page = p + 1]
                  /\ pc' = [pc EXCEPT ![r] = AfterRaise(p)]
                  /\ UNCHANGED upd
             ELSE /\ lp' = [lp EXCEPT ![r].outcomes = Append(@, o),
                                      ![r].local_jobs = acc]
                  /\ upd' = [upd EXCEPT ![r] = Frame(acc, FALSE)]
                  /\ pc' = [pc EXCEPT ![r] = "swap1"]
    /\ UNCHANGED <<jobs_cache, jobs_loaded, jobs_loading, scrape_thread_started,
                   scrape_lock, file, site, boot, rd, lastInstall, pureVars>>

\* update_cache_snapshot(local_jobs, mark_loaded=True) after the last page
LFinal(r) ==
    /\ pc[r] = "final"
    /\ upd' = [upd EXCEPT ![r] = Frame(lp[r].local_jobs, TRUE)]
    /\ pc' = [pc EXCEPT ![r] = "swap1"]
    /\ UNCHANGED <<jobs_cache, jobs_loaded, jobs_loading, scrape_thread_started,
                   scrape_lock, file, site, boot, rd, lp, lastInstall, pureVars>>

\* finally: jobs_loading = False
LFinally(r) ==
    /\ pc[r] = "finally"
    /\ jobs_loading' = FALSE
    /\ pc' = [pc EXCEPT ![r] = "sleep"]
    /\ UNCHANGED <<jobs_cache, jobs_loaded, scrape_thread_started, scrape_lock,
                   file, site, boot, upd, rd, lp, lastInstall, pureVars>>

\* the loop ends after the sleep (faulty variant of AfterSleep)
AfterSleepReturn(r) == "off"

\* `while True:` after time.sleep
AfterSleep(r) == "cycle_start"

\* time.sleep(REFRESH_INTERVAL_SEC) returns and the while loop goes round
LSleep(r) ==
    /\ pc[r] = "sleep"
    /\ lp[r].cycle < MaxCycles
    /\ pc' = [pc EXCEPT ![r] = AfterSleep(r)]
    /\ UNCHANGED <<jobs_cache, jobs_loaded, jobs_loading, scrape_thread_started,
                   scrape_lock, file, site, boot, upd, rd, lp, lastInstall,
                   pureVars>>

Next ==
    \/ Hydrate
    \/ \E h \in Handlers : HStart(h)
    \/ \E h \in Handlers : HEnsSet(h)
    \/ \E h \in Handlers : HCheckEmpty(h)
    \/ \E h \in Handlers : HQuick(h)
    \/ \E h \in Handlers : HRead1(h)
    \/ \E h \in Handlers : HRead2(h)
    \/ \E h \in Handlers : HRespond(h)
    \/ \E h \in Handlers : HReturn(h)
    \/ \E t \in Threads : UpdSwap1(t)
    \/ \E t \in Threads : UpdSwap2(t)
    \/ \E t \in Threads : UpdPersist(t)
    \/ \E r \in Loops : LCycleStart(r)
    \/ \E r \in Loops : LScrape(r)
    \/ \E r \in Loops : LFinal(r)
    \/ \E r \in Loops : LFinally(r)
    \/ \E r \in Loops : LSleep(r)

Spec == Init /\ [][Next]_vars

(***************************************************************************)
(* The start of the refresh loop under concurrent first requests: a pool   *)
(* of NumRacers request threads, each followed through                     *)
(* ensure_scrape_thread_started (server.py:180-186) and no further, and    *)
(* the first cycle of the refresh loops they start.  Every behaviour is a  *)
(* behaviour of the server in which the request threads are not scheduled  *)
(* after the call and the loops are still asleep after their first cycle.  *)
(***************************************************************************)
InitRace ==
    /\ InitGlobals
    /\ pc = PoolOf(NumRacers)
    /\ InitPure
    /\ file = File("absent", <<>>, FALSE)
    /\ site = [p \in Pages |-> PageA(p)]

NextRace ==
    \/ Hydrate
    \/ \E h \in Handlers : HStart(h)
    \/ \E h \in Handlers : HEnsSet(h)
    \/ \E r \in Loops : UpdSwap1(r)
    \/ \E r \in Loops : UpdSwap2(r)
    \/ \E r \in Loops : UpdPersist(r)
    \/ \E r \in Loops : LCycleStart(r)
    \/ \E r \in Loops : LScrape(r)
    \/ \E r \in Loops : LFinal(r)
    \/ \E r \in Loops : LFinally(r)

SpecRace == InitRace /\ [][NextRace]_vars

(***************************************************************************)
(* The refresh loop without end (SpecLive): the server as in Spec, started *)
(* without a file against a site whose first page lists no post, with the  *)
(* sleep returning every time.  lp[r].cycle stops counting at              *)
(* MaxCycles + 1.  Fairness: every step of a loop that can be taken is     *)
(* taken (a fetch ends, the sleep ends), a thread inside a `with` block    *)
(* leaves it, and a loop that asks for the lock again and again gets it.   *)
(***************************************************************************)
InitLive ==
    /\ InitCache
    /\ InitPure
    /\ file = File("absent", <<>>, FALSE)
    /\ site = [p \in Pages |-> IF p = 1 THEN <<>> ELSE PageA(p)]

\* time.sleep(REFRESH_INTERVAL_SEC) returns, whatever the number of cycles
LWake(r) ==
    /\ pc[r] = "sleep"
    /\ pc' = [pc EXCEPT ![r] = AfterSleep(r)]
    /\ UNCHANGED <<jobs_cache, jobs_loaded, jobs_loading, scrape_thread_started,
                   scrape_lock, file, site, boot, upd, rd, lp, lastInstall,
                   pureVars>>

NextLive ==
    \/ Hydrate
    \/ \E h \in Handlers : HStart(h)
    \/ \E h \in Handlers : HEnsSet(h)
    \/ \E h \in Handlers : HCheckEmpty(h)
    \/ \E h \in Handlers : HQuick(h)
    \/ \E h \in Handlers : HRead1(h)
    \/ \E h \in Handlers : HRead2(h)
    \/ \E h \in Handlers : HRespond(h)
    \/ \E h \in Handlers : HReturn(h)
    \/ \E t \in Threads : UpdSwap1(t)
    \/ \E t \in Threads : UpdSwap2(t)
    \/ \E t \in Threads : UpdPersist(t)
    \/ \E r \in Loops : LCycleStart(r)
    \/ \E r \in Loops : LScrape(r)
    \/ \E r \in Loops : LFinal(r)
    \/ \E r \in Loops : LFinally(r)
    \/ \E r \in Loops : LWake(r)

\* the loops that requests can start
LiveLoops == {LoopOf(h) : h \in 1..NumHandlers}

LoopFairness ==
    /\ \A r \in LiveLoops :
          /\ WF_vars(LCycleStart(r))
          /\ WF_vars(LScrape(r))
          /\ SF_vars(UpdSwap1(r))
          /\ WF_vars(UpdPersist(r))
          /\ WF_vars(LFinal(r))
          /\ WF_vars(LFinally(r))
          /\ WF_vars(LWake(r))
    /\ \A t \in LiveLoops \cup 1..NumHandlers : WF_vars(UpdSwap2(t))
    /\ \A h \in 1..NumHandlers : WF_vars(HRead2(h))

SpecLive == InitLive /\ [][NextLive]_vars /\ LoopFairness

(***************************************************************************)
(* dedupe_and_sort_jobs as a function: every list of at most MaxLen        *)
(* records over PureJobs is deduplicated and sorted, and the result again, *)
(* without the truncation (trunc = FALSE) or with it as every caller but   *)
(* api_jobs applies it (trunc = TRUE).                                     *)
(***************************************************************************)
PureDates == {NoDate, 20260315, 20260401, SentinelKey}

PureJobs ==
    {Rec(u, "T", d, "s") : u \in {"a", "b", "c"}, d \in PureDates}
    \cup {Rec("", "a", 20260315, "s"), Rec("", "a", NoDate, "s"),
          Rec("", "", 20260315, "s"), Rec("", "t", 20260401, "s")}

RECURSIVE SeqsUpTo(_, _)
SeqsUpTo(S, n) ==
    IF n = 0 THEN {<<>>}
    ELSE LET shorter == SeqsUpTo(S, n - 1)
         IN  shorter \cup {Append(q, x) : q \in {r \in shorter : Len(r) = n - 1},
                                          x \in S}

Apply(jobs, truncated) ==
    IF truncated THEN Snapshot(jobs) ELSE dedupe_and_sort_jobs(jobs)

InitDedupe ==
    /\ InitCache
    /\ file = File("absent", <<>>, FALSE)
    /\ site = [p \in Pages |-> PageA(p)]
    /\ L \in SeqsUpTo(PureJobs, MaxLen)
    /\ trunc \in BOOLEAN
    /\ once = <<>>
    /\ twice = <<>>
    /\ stage = "in"
    /\ PageOff
    /\ DetailsOff
    /\ ScrapeOff

ApplyOnce ==
    /\ stage = "in"
    /\ once' = Apply(L, trunc)
    /\ stage' = "once"
    /\ UNCHANGED <<L, trunc, twice, cacheVars, pageVars, detailVars, scrapeVars>>

ApplyTwice ==
    /\ stage = "once"
    /\ twice' = Apply(once, trunc)
    /\ stage' = "twice"
    /\ UNCHANGED <<L, trunc, once, cacheVars, pageVars, detailVars, scrapeVars>>

NextDedupe == ApplyOnce \/ ApplyTwice

SpecDedupe == InitDedupe /\ [][NextDedupe]_vars

(***************************************************************************)
(* The window of api_jobs (server.py:1162-1176, 1198-1209) as a function   *)
(* of the cache and of the query arguments offset and limit.  An argument  *)
(* is absent, not a number ("bad") or an integer.                          *)
(***************************************************************************)
\* the cache holds a snapshot: what a replace or the hydrate installs
InitPage ==
    /\ InitCache
    /\ DedupeOff
    /\ file = File("absent", <<>>, FALSE)
    /\ site = [p \in Pages |-> PageA(p)]
    /\ page_in \in {Snapshot(q) : q \in SeqsUpTo(PureJobs, MAX_JOBS_TO_CACHE)}
    /\ query \in [offset : OffsetArgs, limit : LimitArgs]
    /\ resp = NoResponse
    /\ pstage = "in"
    /\ DetailsOff
    /\ ScrapeOff

ApiJobsPage ==
    /\ pstage = "in"
    /\ resp' = ApiJobsWindow(page_in, ParseOffset(query.offset),
                             ParseLimit(query.limit))
    /\ pstage' = "out"
    /\ UNCHANGED <<page_in, query, cacheVars, dedupeVars, detailVars,
                   scrapeVars>>

NextPage == ApiJobsPage

SpecPage == InitPage /\ [][NextPage]_vars

(***************************************************************************)
(* fetch_job_details (server.py:831-1144) as a function of the post URL,   *)
(* of the outcome of the fetch and of the page.                            *)
(*                                                                         *)
(* Encoding of the page.  A text is [txt, dmy, iso]: txt the string, dmy   *)
(* the groups <<dd, mm, yyyy>> of the first match in it of the pattern of  *)
(* coerce_date_value (<<>> when there is none), iso the date of an ISO     *)
(* string as the number yyyymmdd (NoDate for any other string).            *)
(*   tables   - the tables in document order, a table its rows, a row its  *)
(*              cells (texts)                                              *)
(*   lines    - the non-empty lines of the page text: [label, value],      *)
(*              label the lower-case text before the first colon ("" for   *)
(*              a line without colon), value the stripped text after it    *)
(*   sections - the headings h2..h5 in document order: [matches, lines],   *)
(*              matches the keyword lists a heading's text contains a      *)
(*              keyword of, lines the li/p texts up to the next heading    *)
(*   elements - the li/p/div containers in document order: [tag, ctx,      *)
(*              anchors, mention], ctx what the container's text holds     *)
(*              ("onpdf": 'official notification pdf'; "notif": another    *)
(*              keyword of find_notifications; "none"), anchors its        *)
(*              <a href> in order, mention a domain name in its text       *)
(***************************************************************************)
Text(txt) == [txt |-> txt, dmy |-> <<>>, iso |-> NoDate]
RawDate(txt, dd, mm, yyyy) == [txt |-> txt, dmy |-> <<dd, mm, yyyy>>, iso |-> NoDate]
IsoDate(yyyy, mm, dd) ==
    [txt |-> "iso", dmy |-> <<>>, iso |-> yyyy * 10000 + mm * 100 + dd]

\* truth of a string in Python: not empty
Truthy(v) == v.txt # ""

IsLeap(y) == (y % 4 = 0 /\ y % 100 # 0) \/ y % 400 = 0

DaysIn(m, y) ==
    IF m = 2 THEN (IF IsLeap(y) THEN 29 ELSE 28)
    ELSE IF m \in {4, 6, 9, 11} THEN 30 ELSE 31

\* datetime(yyyy, mm, dd) does not raise
ValidDate(dd, mm, yyyy) ==
    /\ yyyy >= 1 /\ yyyy <= 9999
    /\ mm >= 1 /\ mm <= 12
    /\ dd >= 1 /\ dd <= DaysIn(mm, yyyy)

\* server.py:868-877
coerce_date_value(raw_val) ==
    IF raw_val.dmy # <<>> /\ ValidDate(raw_val.dmy[1], raw_val.dmy[2], raw_val.dmy[3])
    THEN IsoDate(raw_val.dmy[3], raw_val.dmy[2], raw_val.dmy[1])
    ELSE raw_val

\* details[k] = v
Put(d, k, v) == [x \in (DOMAIN d) \cup {k} |-> IF x = k THEN v ELSE d[x]]

\* server.py:911-934
key_map ==
    [k \in {"company name", "name of company", "organization", "organisation"}
        |-> "companyName"]
    @@ [k \in {"post name", "post names", "name of post"} |-> "postName"]
    @@ [k \in {"no of posts", "no. of posts", "number of posts"} |-> "noOfPosts"]
    @@ [k \in {"advt no", "advt. no", "advertisement no"} |-> "advtNo"]
    @@ [k \in {"salary", "pay scale"} |-> "salary"]
    @@ [k \in {"qualification"} |-> "qualification"]
    @@ [k \in {"age limit"} |-> "ageLimit"]
    @@ [k \in {"start date for apply", "start date"} |-> "startDate"]
    @@ [k \in {"last date for apply", "last date"} |-> "lastDate"]
    @@ [k \in {"official website"} |-> "officialWebsite"]

\* normalize_key on the cell texts of the model: lower case, one space
normalize_key(txt) ==
    IF txt = "Post Name" THEN "post name"
    ELSE IF txt = "Name of  Post" THEN "name of post"
    ELSE IF txt = "Last Date" THEN "last date"
    ELSE IF txt = "Age Limit" THEN "age limit"
    ELSE IF txt = "Salary" THEN "salary"
    ELSE IF txt = "Qualification" THEN "qualification"
    ELSE IF txt = "No of Posts" THEN "no of posts"
    ELSE IF txt = "Fee" THEN "fee"
    ELSE txt

RECURSIVE Concat(_)
Concat(qs) == IF qs = <<>> THEN <<>> ELSE Head(qs) \o Concat(Tail(qs))

\* " ".join([c for c in cells[1:] if c]): the one non-empty cell, or a text
\* made of several, whose first date pattern is that of the first cell with one
JoinCells(cells) ==
    LET filled == SelectSeq(cells, Truthy)
        dated == SelectSeq(filled, LAMBDA c : c.dmy # <<>>)
    IN  IF filled = <<>> THEN Text("")
        ELSE IF Len(filled) = 1 THEN filled[1]
        ELSE [txt |-> "joined", dmy |-> IF dated = <<>> THEN <<>> ELSE dated[1].dmy,
              iso |-> NoDate]

\* parse_table_kv (server.py:879-890): the dict as its items in insertion order
RECURSIVE TableKVFrom(_, _, _)
TableKVFrom(rows, i, table_kv) ==
    IF i > Len(rows) THEN table_kv
    ELSE LET cells == rows[i]
             key == normalize_key(cells[1].txt)
             val == JoinCells(Tail(cells))
         IN  TableKVFrom(rows, i + 1,
                 IF /\ Len(cells) >= 2
                    /\ key # ""
                    /\ Truthy(val)
                    /\ \A n \in 1..Len(table_kv) : table_kv[n][1] # key
                 THEN Append(table_kv, <<key, val>>)
                 ELSE table_kv)

parse_table_kv(page) == TableKVFrom(Concat(page.tables), 1, <<>>)

\* the loop over table_kv.items() (server.py:935-944)
RECURSIVE TablePass(_, _, _)
TablePass(d, table_kv, i) ==
    IF i > Len(table_kv) THEN d
    ELSE LET raw_key == table_kv[i][1]
             val == table_kv[i][2]
             mapped == IF raw_key \in DOMAIN key_map THEN key_map[raw_key] ELSE ""
         IN  TablePass(
                 IF mapped = "" \/ mapped \in DOMAIN d THEN d
                 ELSE IF mapped = "ageLimit" THEN Put(d, mapped, <<val>>)
                 ELSE IF mapped = "lastDate" THEN Put(d, mapped, coerce_date_value(val))
                 ELSE Put(d, mapped, val),
                 table_kv, i + 1)

\* find_value (server.py:858-863): the value of the first line that starts
\* with one of the prefixes and a colon, "" when there is none
find_value(lines, prefixes) ==
    LET hits == SelectSeq(lines, LAMBDA l : l.label \in prefixes)
    IN  IF hits = <<>> THEN Text("") ELSE hits[1].value

\* if value: details[field] = value
PutIf(d, field, value, stored) == IF Truthy(value) THEN Put(d, field, stored) ELSE d

\* the line-prefix pass (server.py:950-975)
LinePass(d, lines) ==
    LET post_name == find_value(lines, {"post name", "post names", "post", "name of post"})
        no_posts == find_value(lines, {"no of posts", "no. of posts", "number of posts",
                                       "no of vacancy", "vacancies"})
        salary == find_value(lines, {"salary", "pay scale", "stipend"})
        qualification == find_value(lines, {"qualification", "educational qualification",
                                            "essential qualification"})
        age_limit_val == find_value(lines, {"age limit", "age", "age as on"})
        last_date == find_value(lines, {"last date", "last date for online application",
                                        "last date to apply"})
        d1 == PutIf(d, "postName", post_name, post_name)
        d2 == PutIf(d1, "noOfPosts", no_posts, no_posts)
        d3 == PutIf(PutIf(d2, "salary", salary, salary), "salaryDetails", salary, <<salary>>)
        d4 == PutIf(d3, "qualification", qualification, qualification)
        d5 == PutIf(d4, "ageLimit", age_limit_val, <<age_limit_val>>)
    IN  PutIf(d5, "lastDate", last_date, coerce_date_value(last_date))

\* parse_important_dates_table (server.py:892-908): the rows after the header
\* of the first table whose header row names an event and a date and that
\* has such rows
IsEventDateHeader(row) ==
    /\ \E n \in 1..Len(row) : row[n].txt \in {"Event"}
    /\ \E n \in 1..Len(row) : row[n].txt \in {"Date", "Last Date"}

DateItems(rows) ==
    LET wide == SelectSeq(Tail(rows), LAMBDA cells : Len(cells) >= 2)
    IN  [n \in 1..Len(wide) |-> [event |-> wide[n][1], date |-> wide[n][2]]]

RECURSIVE DatesTableFrom(_, _)
DatesTableFrom(tables, i) ==
    IF i > Len(tables) THEN <<>>
    ELSE IF /\ tables[i] # <<>>
            /\ tables[i][1] # <<>>
            /\ IsEventDateHeader(tables[i][1])
            /\ DateItems(tables[i]) # <<>>
         THEN DateItems(tables[i])
         ELSE DatesTableFrom(tables, i + 1)

parse_important_dates_table(page) == DatesTableFrom(page.tables, 1)

\* a URL or href: [scheme, host, path]; scheme is "", "//", "http://" or
\* "https://"; the empty string has all three empty
Url(scheme, host, path) == [scheme |-> scheme, host |-> host, path |-> path]
NoUrl == Url("", "", "")

\* server.py:998-1005
normalize_url(url_val) ==
    IF url_val = NoUrl THEN NoUrl
    ELSE IF url_val.scheme = "//" THEN Url("https://", url_val.host, url_val.path)
    ELSE IF url_val.scheme \in {"http://", "https://"} THEN url_val
    ELSE Url("https://", url_val.host, url_val.path)

\* server.py:1007-1009
domain_from_url(url_val) == url_val.host

\* href.lower().endswith(".pdf")
EndsWithPdf(url_val) == url_val.path \in {"/n.pdf", "/m.pdf", "/adv.pdf"}

\* soup.find_all("a", href=True): the anchors in document order, each with
\* the context of its container
AnchorsOf(element) ==
    [n \in 1..Len(element.anchors) |->
        [href |-> element.anchors[n].href,
         official |-> element.anchors[n].official,
         domain |-> element.anchors[n].domain,
         ctx |-> element.ctx]]

Anchors(page) ==
    Concat([n \in 1..Len(page.elements) |-> AnchorsOf(page.elements[n])])

\* the domain names the pattern of server.py:1024 finds in the page text: those
\* of the anchor texts and those the containers mention, in document order
DomainsOf(element) ==
    [n \in 1..Len(element.anchors) |-> element.anchors[n].domain]
    \o <<element.mention>>

TextDomains(page) ==
    SelectSeq(Concat([n \in 1..Len(page.elements) |-> DomainsOf(page.elements[n])]),
              LAMBDA m : m # "")

\* the anchor text matches \.gov\.in\b
GovText(a) == a.domain \in {"ssc.gov.in"}

\* no `not in urls` test (faulty variant of AppendNew)
AppendAlways(urls, url_val) ==
    IF url_val # NoUrl THEN Append(urls, url_val) ELSE urls

\* if url_val and url_val not in urls: urls.append(url_val)
AppendNew(urls, url_val) ==
    IF url_val # NoUrl /\ \A n \in 1..Len(urls) : urls[n] # url_val
    THEN Append(urls, url_val)
    ELSE urls

RECURSIVE AppendAllNew(_, _, _)
AppendAllNew(urls, candidates, i) ==
    IF i > Len(candidates) THEN urls
    ELSE AppendAllNew(AppendNew(urls, candidates[i]), candidates, i + 1)

\* urls[:2] dropped (faulty variant of FirstTwo)
FirstTwoNot(urls) == urls

\* urls[:2]
FirstTwo(urls) == SubSeq(urls, 1, IF Len(urls) < 2 THEN Len(urls) ELSE 2)

\* server.py:1011-1028
find_official_sites(page) ==
    LET anchors == Anchors(page)
        by_label == SelectSeq(anchors, LAMBDA a : a.official)
        by_text == SelectSeq(anchors, GovText)
        domains == TextDomains(page)
        u1 == AppendAllNew(<<>>, [n \in 1..Len(by_label) |->
                                     normalize_url(by_label[n].href)], 1)
        u2 == AppendAllNew(u1, [n \in 1..Len(by_text) |->
                                   normalize_url(by_text[n].href)], 1)
        u3 == AppendAllNew(u2, [n \in 1..Len(domains) |->
                                   normalize_url(Url("", domains[n], ""))], 1)
    IN  FirstTwo(u3)

\* the second loop of find_notifications (server.py:1043-1061)
RECURSIVE PdfLinksFrom(_, _, _)
PdfLinksFrom(anchors, i, candidates) ==
    IF i > Len(anchors) THEN candidates
    ELSE LET href == normalize_url(anchors[i].href)
         IN  IF ~EndsWithPdf(href) \/ \E n \in 1..Len(candidates) : candidates[n] = href
             THEN PdfLinksFrom(anchors, i + 1, candidates)
             ELSE LET next == IF anchors[i].ctx \in {"onpdf", "notif"}
                              THEN Append(candidates, href)
                              ELSE candidates
                  IN  IF Len(next) >= 2 THEN next
                      ELSE PdfLinksFrom(anchors, i + 1, next)

\* server.py:1030-1062
find_notifications(page) ==
    LET items == SelectSeq(page.elements,
                           LAMBDA e : e.tag = "li" /\ e.ctx = "onpdf" /\ e.anchors # <<>>)
        primary == AppendAllNew(<<>>, [n \in 1..Len(items) |->
                                          normalize_url(items[n].anchors[1].href)], 1)
    IN  IF Len(primary) < 2 THEN PdfLinksFrom(Anchors(page), 1, primary) ELSE primary

\* extract_important_links_strict (server.py:997-1087)
extract_important_links_strict(page) ==
    LET official_sites == find_official_sites(page)
        notifications == FirstTwo(find_notifications(page))
    IN  [n \in 1..Len(official_sites) |->
            [type |-> "officialWebsite", label |-> "Official Website:",
             display |-> domain_from_url(official_sites[n]),
             url |-> official_sites[n]]]
        \o [n \in 1..Len(notifications) |->
            [type |-> "officialNotification", label |-> "Official Notification PDF :",
             display |-> "CLICK HERE", url |-> notifications[n]]]

\* extract_section_by_heading (server.py:983-996) for one keyword list
extract_section_by_heading(page, keywords) ==
    LET hits == SelectSeq(page.sections, LAMBDA h : keywords \in h.matches)
    IN  IF hits = <<>> THEN <<>> ELSE hits[1].lines

\* if lines: details[field] = lines
PutSection(d, page, field, keywords) ==
    LET lines == extract_section_by_heading(page, keywords)
    IN  IF lines # <<>> THEN Put(d, field, lines) ELSE d

\* the anchor whose text names the official website (server.py:978-981)
OfficialAnchorPass(d, page) ==
    LET hits == SelectSeq(Anchors(page), LAMBDA a : a.official)
    IN  IF hits = <<>> THEN d ELSE Put(d, "officialWebsite", hits[1].href)

\* server.py:1124-1128
LinksPass(d, page) ==
    LET important_links == extract_important_links_strict(page)
        sites == SelectSeq(important_links,
                           LAMBDA l : l.type = "officialWebsite" /\ l.url # NoUrl)
        d1 == Put(d, "officialWebsites", [n \in 1..Len(sites) |-> sites[n].url])
        d2 == IF \E n \in 1..Len(important_links) :
                     important_links[n].type = "officialNotification"
              THEN d1
              ELSE Put(d1, "officialNotificationStatus", "Official Notification PDF : N/A")
    IN  Put(d2, "importantLinks", important_links)

\* a result without the key html (faulty variant of NewDetails)
NewDetailsUrlOnly(job_url) == [k \in {"url"} |-> job_url]

\* details = {"url": job_url, "html": ""} (server.py:840)
NewDetails(job_url) == [k \in {"url", "html"} |-> IF k = "url" THEN job_url ELSE ""]

\* the page was fetched (server.py:848-1144); html is the page text
ParsePage(job_url, page) ==
    LET d0 == Put(NewDetails(job_url), "html", "text")
        d1 == TablePass(d0, parse_table_kv(page), 1)
        dates == parse_important_dates_table(page)
        d2 == IF dates # <<>> THEN Put(d1, "importantDatesTable", dates) ELSE d1
        d3 == LinePass(d2, page.lines)
        d4 == OfficialAnchorPass(d3, page)
        d5 == PutSection(d4, page, "eligibility", "eligibility")
        d6 == PutSection(d5, page, "desirableSkills", "desirable")
        d7 == PutSection(d6, page, "experience", "experience")
        sal_details == extract_section_by_heading(page, "salary")
        d8 == IF sal_details = <<>> THEN d7
              ELSE LET with == Put(d7, "salaryDetails", sal_details)
                   IN  IF "salary" \in DOMAIN with THEN with
                       ELSE Put(with, "salary", sal_details[1])
        d9 == PutSection(d8, page, "importantDates", "importantDates")
        d10 == PutSection(d9, page, "selectionProcess", "selection")
        d11 == PutSection(d10, page, "generalInstructions", "general")
        d12 == PutSection(d11, page, "howToApply", "howToApply")
        d13 == LinksPass(d12, page)
    IN  IF "ageLimit" \in DOMAIN d13 THEN d13
        ELSE PutSection(d13, page, "ageLimit", "ageLimit")

\* server.py:840-847: no URL, or requests.get raised
fetch_job_details(job_url, outcome, page) ==
    IF job_url = "" \/ outcome = "fail" THEN NewDetails(job_url)
    ELSE ParsePage(job_url, page)

\* Longest list of table rows and of text lines of a page of SpecDetails.
MaxRows == 2
\* Longest list of containers of a page of SpecDetails.
MaxElements == 3

\* rows of a table: key and value cells, an empty value, a single cell, a
\* header of a dates table, three cells
RowChoices ==
    { <<Text("Post Name"), Text("Clerk")>>,
      <<Text("Name of  Post"), Text("Officer")>>,
      <<Text("Last Date"), RawDate("15/03/2026", 15, 3, 2026)>>,
      <<Text("Last Date"), RawDate("31/02/2026", 31, 2, 2026)>>,
      <<Text("Age Limit"), Text("18-30")>>,
      <<Text("Salary"), Text("")>>,
      <<Text("Fee")>>,
      <<Text("Event"), Text("Date")>>,
      <<Text("Qualification"), Text("BSc"), Text("MSc")>> }

Line(label, value) == [label |-> label, value |-> value]

\* text lines: `label: value`, a label with nothing after the colon, a line
\* without colon
LineChoices ==
    { Line("post name", Text("Manager")),
      Line("post", Text("")),
      Line("last date", RawDate("20-04-2026", 20, 4, 2026)),
      Line("age", Text("21")),
      Line("salary", Text("Rs 100")),
      Line("qualification", Text("BA")),
      Line("no of posts", Text("5")),
      Line("", Text("")) }

Section(matches, lines) == [matches |-> matches, lines |-> lines]

SectionChoices ==
    { Section({"salary"}, <<Text("Rs 5"), Text("Rs 6")>>),
      Section({"salary"}, <<>>),
      Section({"ageLimit"}, <<Text("18 to 30")>>),
      Section({"eligibility", "salary"}, <<Text("Degree")>>),
      Section({"importantDates", "experience", "desirable"}, <<Text("x")>>),
      Section({"selection", "general", "howToApply"}, <<Text("y")>>) }

Anchor(href, official, domain) ==
    [href |-> href, official |-> official, domain |-> domain]

Element(tag, ctx, anchors, mention) ==
    [tag |-> tag, ctx |-> ctx, anchors |-> anchors, mention |-> mention]

ElementChoices ==
    { Element("li", "onpdf", <<Anchor(Url("https://", "ssc.gov.in", "/n.pdf"), FALSE, "")>>, ""),
      Element("li", "onpdf", <<Anchor(Url("//", "ssc.gov.in", "/n.pdf"), FALSE, "")>>, ""),
      Element("p", "notif", <<Anchor(Url("", "x.org", "/adv.pdf"), FALSE, "")>>, ""),
      Element("p", "none", <<Anchor(Url("https://", "x.org", "/adv.pdf"), FALSE, "")>>, ""),
      Element("p", "none", <<Anchor(Url("http://", "ssc.gov.in", ""), TRUE, "")>>, ""),
      Element("p", "none", <<Anchor(Url("https://", "ssc.gov.in", ""), FALSE, "ssc.gov.in")>>, ""),
      Element("p", "none", <<>>, "x.nic.in"),
      Element("li", "onpdf", <<>>, ""),
      Element("li", "onpdf", <<Anchor(NoUrl, FALSE, "")>>, ""),
      Element("li", "notif", <<Anchor(Url("https://", "ssc.gov.in", "/m.pdf"), FALSE, ""),
                               Anchor(Url("https://", "x.org", "/adv.pdf"), TRUE, "")>>, "") }

Page(tables, lines, sections, elements) ==
    [tables |-> tables, lines |-> lines, sections |-> sections, elements |-> elements]

\* pages that vary the table and the text lines: up to MaxRows rows with at
\* most one line, and at most one row with up to MaxRows lines
KeyValuePages ==
    { Page(IF rows = <<>> THEN <<>> ELSE <<rows>>, lines, <<>>, <<>>) :
        rows \in SeqsUpTo(RowChoices, MaxRows),
        lines \in SeqsUpTo(LineChoices, 1) }
    \cup
    { Page(IF rows = <<>> THEN <<>> ELSE <<rows>>, lines, <<>>, <<>>) :
        rows \in SeqsUpTo(RowChoices, 1),
        lines \in SeqsUpTo(LineChoices, MaxRows) }

\* pages that vary the headed sections, with and without a salary and an age
\* from a table or a line
SectionPages ==
    { Page(tables, lines, sections, <<>>) :
        tables \in { <<>>, << <<<<Text("Age Limit"), Text("18-30")>>,
                                <<Text("Salary"), Text("Rs 9")>>>> >> },
        lines \in { <<>>, <<Line("salary", Text("Rs 100"))>>, <<Line("age", Text("21"))>> },
        sections \in SeqsUpTo(SectionChoices, MaxRows) }

\* pages that vary the links
LinkPages ==
    { Page(<<>>, <<>>, <<>>, elements) :
        elements \in SeqsUpTo(ElementChoices, MaxElements) }

DetailInputs ==
    { [url |-> u, outcome |-> o, page |-> NoPage] :
         u \in {"", "u"}, o \in {"ok", "fail"} }
    \cup { [url |-> "u", outcome |-> o, page |-> pg] :
              o \in {"ok", "fail"},
              pg \in KeyValuePages \cup SectionPages \cup LinkPages }

InitDetails ==
    /\ InitCache
    /\ DedupeOff
    /\ PageOff
    /\ ScrapeOff
    /\ file = File("absent", <<>>, FALSE)
    /\ site = [p \in Pages |-> PageA(p)]
    /\ det_in \in DetailInputs
    /\ details = <<>>
    /\ dstage = "in"

FetchJobDetails ==
    /\ dstage = "in"
    /\ details' = fetch_job_details(det_in.url, det_in.outcome, det_in.page)
    /\ dstage' = "out"
    /\ UNCHANGED <<det_in, cacheVars, dedupeVars, pageVars, scrapeVars>>

NextDetails == FetchJobDetails

SpecDetails == InitDetails /\ [][NextDetails]_vars

(***************************************************************************)
(* The page parsers (server.py:517-828) as functions of the fetched page   *)
(* (SpecScrape).                                                           *)
(*   A cell or a field value is a text as in fetch_job_details; its txt    *)
(* tells the form of the text and its dmy the day, month and year written  *)
(* in it: "dd-mm-yyyy" is a numeric date and nothing else, "dd-Mon-yyyy" a *)
(* date with a three-letter month (month 0: letters that name no month),   *)
(* "on dd-mm-yyyy" and "on dd-Mon-yyyy" the same inside other text.        *)
(*   A state is absent (None) or a string, the sequence of its words.      *)
(*   A location is the sequence of its comma-separated segments, each the  *)
(* sequence of its words; white space inside the result of the             *)
(* substitution is not followed.                                           *)
(***************************************************************************)
\* truth of an Optional[str] in Python
TruthyStr(s) == s.given /\ s.words # <<>>

\* datetime.strptime(s, "%d-%m-%Y").date().isoformat(), <<>> when it raises
\* (server.py:570, 753, 812)
strptime_dmy(s) ==
    IF s.txt = "dd-mm-yyyy" /\ ValidDate(s.dmy[1], s.dmy[2], s.dmy[3])
    THEN <<IsoDate(s.dmy[3], s.dmy[2], s.dmy[1])>>
    ELSE <<>>

\* server.py:569-572
table_last_date(last_date_str) ==
    IF strptime_dmy(last_date_str) # <<>> THEN strptime_dmy(last_date_str)[1]
    ELSE Text("")

\* server.py:664-674: re.search of dd-Mon-yyyy, then strptime "%d-%b-%Y"
search_last_date(last_date_str) ==
    IF /\ Truthy(last_date_str)
       /\ last_date_str.txt \in {"dd-Mon-yyyy", "on dd-Mon-yyyy"}
       /\ ValidDate(last_date_str.dmy[1], last_date_str.dmy[2],
                    last_date_str.dmy[3])
    THEN IsoDate(last_date_str.dmy[3], last_date_str.dmy[2],
                 last_date_str.dmy[1])
    ELSE Text("")

\* server.py:574-580: the number before "Posts" in the title, <<>> for None
post_count_of(title) == IF title.txt = "T 30 Posts" THEN <<30>> ELSE <<>>

\* requests.compat.urljoin(url, href) for a page at the root of its site:
\* an absolute href is kept, a root-relative one is put after the origin
urljoin(url, href) ==
    IF href.abs THEN href.ref ELSE <<url.origin, href.ref>>

\* server.py:582-584 (and 649-652)
job_url_of(url, href) == IF href.ref = "" THEN "" ELSE urljoin(url, href)

\* server.py:562-596, the body of the loop for one anchor
TableRecords(url, source_name, state, item) ==
    IF ~item.tr THEN <<>>
    ELSE IF Len(item.cells) < 6 THEN <<>>
    ELSE << [title |-> item.cells[3],
             board |-> item.cells[2],
             qualification |-> item.cells[4],
             lastDate |-> table_last_date(item.cells[6]),
             source |-> <<"FreeJobAlert", source_name>>,
             state |-> state,
             postCount |-> post_count_of(item.cells[3])] >>

\* the records of the anchors of one row, with the url of each anchor
RECURSIVE AnchorRecords(_, _, _, _, _)
AnchorRecords(url, source_name, state, item, k) ==
    IF k > Len(item.links) THEN <<>>
    ELSE [i \in 1..Len(TableRecords(url, source_name, state, item)) |->
            [f \in {"url"} \cup DOMAIN TableRecords(url, source_name, state, item)[i]
               |-> IF f = "url" THEN job_url_of(url, item.links[k])
                   ELSE TableRecords(url, source_name, state, item)[i][f]]]
         \o AnchorRecords(url, source_name, state, item, k + 1)

\* server.py:558-596: every "Get Details" anchor in document order
RECURSIVE TableFrom(_, _, _, _, _)
TableFrom(url, source_name, state, items, i) ==
    IF i > Len(items) THEN <<>>
    ELSE AnchorRecords(url, source_name, state, items[i], 1)
         \o TableFrom(url, source_name, state, items, i + 1)

\* server.py:517-597; a fetch that fails returns no record
scrape_freejobalert_table_page(url, source_name, state, outcome, items) ==
    IF outcome = "fail" THEN <<>>
    ELSE TableFrom(url, source_name, state, items, 1)

\* re.IGNORECASE on the words the pattern names
Lower(w) ==
    IF w \in {"District", "district"} THEN "district"
    ELSE IF w \in {"State", "state"} THEN "state" ELSE w

\* the substitution without the alternative `\w+ District` (faulty variant
\* of re_sub_state)
RECURSIVE re_sub_words(_)
re_sub_words(words) ==
    IF words = <<>> THEN <<>>
    ELSE IF Lower(words[1]) \in {"district", "state"}
         THEN re_sub_words(Tail(words))
    ELSE <<words[1]>> \o re_sub_words(Tail(words))

\* server.py:683: re.sub(r"\b(\w+ District|District|State)\b", "", candidate,
\* flags=re.IGNORECASE) scans from the left; at the start of a word the
\* first alternative takes the word and the "District" after it
RECURSIVE re_sub_state(_)
re_sub_state(words) ==
    IF words = <<>> THEN <<>>
    ELSE IF Len(words) >= 2 /\ Lower(words[2]) = "district"
         THEN re_sub_state(SubSeq(words, 3, Len(words)))
    ELSE IF Lower(words[1]) \in {"district", "state"}
         THEN re_sub_state(Tail(words))
    ELSE <<words[1]>> \o re_sub_state(Tail(words))

\* server.py:675-684
infer_state(inferred_state, location) ==
    IF ~TruthyStr(inferred_state) /\ Len(location) >= 2
    THEN (IF re_sub_state(location[Len(location)]) # <<>>
          THEN Str(re_sub_state(location[Len(location)]))
          ELSE None)
    ELSE inferred_state

\* `board not in post_name`: the board's words are not found in the name
BoardIn(board, post_name) ==
    \E i \in 1..Len(post_name) :
        /\ i + Len(board) - 1 <= Len(post_name)
        /\ SubSeq(post_name, i, i + Len(board) - 1) = board

\* server.py:659-662
search_title(board, post_name) ==
    IF board # <<>> /\ post_name # <<>> /\ ~BoardIn(board, post_name)
    THEN board \o post_name
    ELSE post_name

\* server.py:632-706, the body of the loop for one div.org_tab; the block
\* gives for every field the value its table holds under the field's names
\* (<<>> or "" when it holds none)
SearchRecord(url, category, inferred_state, block) ==
    [title |-> IF search_title(block.board, block.post_name) # <<>>
               THEN search_title(block.board, block.post_name)
               ELSE block.board,
     board |-> block.board,
     qualification |-> block.qualification,
     lastDate |-> search_last_date(block.last_date),
     source |-> IF category # "" THEN <<"FreeJobAlert", category>>
                ELSE <<"FreeJobAlert", "Search">>,
     url |-> job_url_of(url, block.href),
     state |-> infer_state(inferred_state, block.location),
     postCount |-> IF block.vacancy.txt # "" THEN block.vacancy.num ELSE <<>>,
     location |-> block.location]

\* server.py:600-707; a fetch that fails returns no record
scrape_freejobalert_search_page(url, category, inferred_state, outcome, blocks) ==
    IF outcome = "fail" THEN <<>>
    ELSE [i \in 1..Len(blocks) |->
            SearchRecord(url, category, inferred_state, blocks[i])]

\* server.py:803-827: the rows of the table with five cells or more
RECURSIVE IndGovtJobsFrom(_, _)
IndGovtJobsFrom(rows, i) ==
    IF i > Len(rows) THEN <<>>
    ELSE (IF Len(rows[i].cells) >= 5
          THEN << [title |-> rows[i].cells[2],
                   board |-> rows[i].cells[3],
                   qualification |-> rows[i].cells[4],
                   lastDate |-> table_last_date(rows[i].cells[5]),
                   source |-> "IndGovtJobs",
                   url |-> IF rows[i].links # <<>> THEN rows[i].links[1].ref
                           ELSE ""] >>
          ELSE <<>>)
         \o IndGovtJobsFrom(rows, i + 1)

\* server.py:783-828; found tells whether the page has the heading
\* "Latest All India" and a table after it
scrape_indgovtjobs_latest_all_india(outcome, found, rows) ==
    IF outcome = "fail" \/ found # "table" THEN <<>>
    ELSE IndGovtJobsFrom(rows, 1)

\* The pages the parsers are applied to
Href(abs, ref) == [abs |-> abs, ref |-> ref]
ScrapeUrl == [origin |-> "https://f", path |-> "/jobs/"]

DateCells ==
    { RawDate("dd-mm-yyyy", 15, 3, 2026), RawDate("dd-mm-yyyy", 31, 2, 2026),
      RawDate("on dd-mm-yyyy", 15, 3, 2026), RawDate("dd-Mon-yyyy", 4, 2, 2026),
      RawDate("dd-Mon-yyyy", 4, 0, 2026), Text("") }

\* post date, board, post name, qualification, advt no, last date, and a
\* seventh cell some tables have
RowCells(n, date) ==
    SubSeq(<<Text("posted"), Text("B"), Text("T 30 Posts"), Text("Q"),
             Text("adv"), date, Text("more")>>, 1, n)

Item(tr, links, cells) == [tr |-> tr, links |-> links, cells |-> cells]

\* rows with their "Get Details" anchors, and an anchor outside every row
TableItems ==
    { Item(TRUE, <<Href(FALSE, "/x")>>, RowCells(6, d)) : d \in DateCells }
    \cup { Item(TRUE, <<Href(FALSE, "/x"), Href(TRUE, "https://o/y")>>,
                RowCells(6, RawDate("dd-mm-yyyy", 15, 3, 2026))),
           Item(TRUE, <<>>, RowCells(6, RawDate("dd-mm-yyyy", 15, 3, 2026))),
           Item(TRUE, <<Href(FALSE, "")>>, RowCells(7, Text(""))),
           Item(TRUE, <<Href(FALSE, "/s")>>,
                RowCells(5, RawDate("dd-mm-yyyy", 15, 3, 2026))),
           Item(FALSE, <<Href(FALSE, "/o")>>, <<>>) }

\* the rows of the table under the heading, with the anchors that have href
IndGovtJobsRows ==
    { Item(TRUE, <<Href(TRUE, "https://i/x")>>, Tail(RowCells(6, d))) :
         d \in DateCells }
    \cup { Item(TRUE, <<>>, Tail(RowCells(7, Text("")))),
           Item(TRUE, <<Href(TRUE, "https://i/s")>>, Tail(RowCells(5, Text("")))) }

Locations ==
    { <<>>, << <<"Kochi">> >>,
      << <<"Some", "City">>, <<"Kerala">> >>,
      << <<"Kochi">>, <<"Kerala", "State">> >>,
      << <<"Kochi">>, <<"Pune", "District">> >>,
      << <<"Kochi">>, <<"Pune", "District", "Kerala">> >>,
      << <<"Kochi">>, <<"district">> >>,
      << <<"Kochi">>, <<>> >> }

Block(board, post_name, last_date, vacancy, location, href) ==
    [board |-> board, post_name |-> post_name, qualification |-> "Q",
     last_date |-> last_date, vacancy |-> vacancy, location |-> location,
     href |-> href]

Vacancy(txt, num) == [txt |-> txt, num |-> num]

LocationBlocks ==
    { Block(<<"RBI">>, <<"Clerk">>, RawDate("dd-Mon-yyyy", 4, 2, 2026),
            Vacancy("12 Posts", <<12>>), l, Href(FALSE, "/a")) :
         l \in Locations }

OtherBlocks ==
    { Block(<<"RBI">>, <<"RBI", "Clerk">>, d, Vacancy("many", <<>>),
            << <<"Kochi">>, <<"Kerala">> >>, Href(TRUE, "https://o/a")) :
         d \in DateCells }
    \cup { Block(b, <<>>, Text(""), Vacancy("", <<>>), <<>>, Href(FALSE, ""))
              : b \in {<<>>, <<"RBI">>} }
    \cup { Block(<<>>, <<"Clerk">>, Text(""), Vacancy("", <<>>), <<>>,
                 Href(FALSE, "")) }

ScrapeIn(parser, outcome, name, state, found, page) ==
    [parser |-> parser, outcome |-> outcome, name |-> name, state |-> state,
     found |-> found, page |-> page]

TableInputs ==
    { ScrapeIn("table", o, "Bank Jobs", st, "none", pg) :
         o \in {"ok", "fail"}, st \in {None, Str(<<"Kerala">>)},
         pg \in SeqsUpTo(TableItems, MaxRows) }

SearchInputs ==
    { ScrapeIn("search", o, c, st, "none", pg) :
         o \in {"ok", "fail"}, c \in {"", "Pune Jobs"},
         st \in {None, Str(<<>>), Str(<<"Goa">>)},
         pg \in SeqsUpTo(LocationBlocks, MaxRows - 1)
                  \cup {<<b>> : b \in OtherBlocks} }

IndGovtJobsInputs ==
    { ScrapeIn("indgovtjobs", o, "", None, f, pg) :
         o \in {"ok", "fail"}, f \in {"none", "header", "table"},
         pg \in SeqsUpTo(IndGovtJobsRows, MaxRows) }

InitScrape ==
    /\ InitCache
    /\ DedupeOff
    /\ PageOff
    /\ DetailsOff
    /\ file = File("absent", <<>>, FALSE)
    /\ site = [p \in Pages |-> PageA(p)]
    /\ scr_in \in TableInputs \cup SearchInputs \cup IndGovtJobsInputs
    /\ scr_out = <<>>
    /\ sstage = "in"

ScrapeTablePage ==
    /\ sstage = "in"
    /\ scr_in.parser = "table"
    /\ scr_out' = scrape_freejobalert_table_page(ScrapeUrl, scr_in.name,
                      scr_in.state, scr_in.outcome, scr_in.page)
    /\ sstage' = "out"
    /\ UNCHANGED <<scr_in, cacheVars, dedupeVars, pageVars, detailVars>>

ScrapeSearchPage ==
    /\ sstage = "in"
    /\ scr_in.parser = "search"
    /\ scr_out' = scrape_freejobalert_search_page(ScrapeUrl, scr_in.name,
                      scr_in.state, scr_in.outcome, scr_in.page)
    /\ sstage' = "out"
    /\ UNCHANGED <<scr_in, cacheVars, dedupeVars, pageVars, detailVars>>

ScrapeIndGovtJobs ==
    /\ sstage = "in"
    /\ scr_in.parser = "indgovtjobs"
    /\ scr_out' = scrape_indgovtjobs_latest_all_india(scr_in.outcome,
                      scr_in.found, scr_in.page)
    /\ sstage' = "out"
    /\ UNCHANGED <<scr_in, cacheVars, dedupeVars, pageVars, detailVars>>

NextScrape == ScrapeTablePage \/ ScrapeSearchPage \/ ScrapeIndGovtJobs

SpecScrape == InitScrape /\ [][NextScrape]_vars

(***************************************************************************)
(* Properties of dedupe_and_sort_jobs (SpecDedupe)                         *)
(***************************************************************************)
Range(q) == {q[i] : i \in 1..Len(q)}

\* the smallest index of jobs whose record has key k
FirstIndex(jobs, k) ==
    CHOOSE i \in 1..Len(jobs) :
        /\ JobKey(jobs[i]) = k
        /\ \A j \in 1..(i - 1) : JobKey(jobs[j]) # k

\* ascending by lastDate, every undated record after every dated one
DateOrdered(out) ==
    \A i, j \in 1..Len(out) :
        i < j =>
            /\ out[i].lastDate = NoDate => out[j].lastDate = NoDate
            /\ (out[i].lastDate # NoDate /\ out[j].lastDate # NoDate)
                   => out[i].lastDate <= out[j].lastDate

\* records of equal lastDate stand as their first occurrences stand in jobs
TiesKeepInputOrder(jobs, out) ==
    \A i, j \in 1..Len(out) :
        (i < j /\ out[i].lastDate = out[j].lastDate)
            => FirstIndex(jobs, JobKey(out[i])) < FirstIndex(jobs, JobKey(out[j]))

\* C2: for every list L of records whose lastDate is an ISO date or empty,
\* dedupe_and_sort_jobs(L) is ascending by lastDate with every undated record
\* after every dated one, and records of equal lastDate keep the order of
\* their first occurrences in L.
C2_AscendingUndatedLast ==
    stage # "in" => DateOrdered(once) /\ TiesKeepInputOrder(L, once)

\* What the code does order by: the key of default_last_date_key, under which
\* an undated record ties with a record dated 9999-12-31.
C2_AscendingBySortKey ==
    stage # "in" =>
        /\ \A i, j \in 1..Len(once) :
              i < j => default_last_date_key(once[i]) <= default_last_date_key(once[j])
        /\ \A i, j \in 1..Len(once) :
              (i < j /\ default_last_date_key(once[i]) = default_last_date_key(once[j]))
                 => FirstIndex(L, JobKey(once[i])) < FirstIndex(L, JobKey(once[j]))

\* C3: dedupe_and_sort_jobs is idempotent: applied to its own result it
\* returns that result element for element, without the truncation to
\* MAX_JOBS_TO_CACHE and with it applied after each application.
C3_Idempotent == stage = "twice" => twice = once

\* a list with a repeated key and two records of equal date was normalised,
\* truncated, and normalised again
C3_Witness ==
    /\ stage = "twice"
    /\ trunc
    /\ Len(dedupe_and_sort_jobs(L)) > MAX_JOBS_TO_CACHE
    /\ Len(once) >= 2
    /\ once # L
    /\ default_last_date_key(once[1]) = default_last_date_key(once[2])

\* C4: first-seen wins: the record dedupe_and_sort_jobs(L) keeps for a key
\* is the record at the smallest index of L that has the key, and without
\* truncation every key of L has a record in the result.
C4_FirstSeenWins ==
    stage # "in" =>
        /\ \A i \in 1..Len(once) :
              /\ JobKey(once[i]) \in {JobKey(x) : x \in Range(L)}
              /\ once[i] = L[FirstIndex(L, JobKey(once[i]))]
        /\ ~trunc => \A x \in Range(L) :
                        JobKey(x) # "" => \E y \in Range(once) : JobKey(y) = JobKey(x)

\* two different records of one key were in the input; the earlier was kept
C4_Witness ==
    /\ stage = "once"
    /\ \E i, j \in 1..Len(L) :
          /\ i < j
          /\ JobKey(L[i]) = JobKey(L[j])
          /\ JobKey(L[i]) # ""
          /\ L[i] # L[j]
          /\ L[i] \in Range(once)
          /\ L[j] \notin Range(once)

(***************************************************************************)
(* Properties of the cache (Spec)                                          *)
(***************************************************************************)
NoDupKeys(jobs) ==
    \A i, j \in 1..Len(jobs) : i # j => JobKey(jobs[i]) # JobKey(jobs[j])

HasDupKeys(jobs) ==
    \E i, j \in 1..Len(jobs) :
        i # j /\ JobKey(jobs[i]) = JobKey(jobs[j]) /\ JobKey(jobs[i]) # ""

Keyless(job) == job.url = "" /\ job.title = ""

\* the first n records of q, all of q when it is shorter
FirstN(q, n) == [i \in 1..(IF Len(q) < n THEN Len(q) ELSE n) |-> q[i]]

\* the state after the import: hydrate has run and no request has arrived
JustHydrated == boot = "ready" /\ ~scrape_thread_started

\* C1: in every reachable state of the server (after hydrate, after every
\* incremental or final replace, after a handler's quick-scrape seed) no two
\* records of the cache snapshot have the same dedupe key (url, else title),
\* and neither have two records of a list response.
C1_NoDuplicateKeys ==
    /\ NoDupKeys(jobs_cache)
    /\ \A h \in Handlers : NoDupKeys(rd[h].deduped)

\* a replace whose input repeats a key has just installed two records or more
C1_Witness ==
    \E t \in Threads :
        /\ pc[t] = "swap2"
        /\ HasDupKeys(upd[t].jobs)
        /\ jobs_cache = upd[t].deduped
        /\ Len(jobs_cache) >= 2

C6_NoKeylessRecord ==
    /\ \A x \in Range(jobs_cache) : ~Keyless(x)
    /\ file.written => \A x \in Range(json_load(file.jobs)) : ~Keyless(x)

\* a cycle's accumulator holds a record without key, and its snapshot is both
\* in the cache and in the file
C6_Witness ==
    \E r \in Loops :
        /\ \E x \in Range(lp[r].local_jobs) : Keyless(x)
        /\ jobs_cache = Snapshot(lp[r].local_jobs)
        /\ Len(jobs_cache) >= 1
        /\ file = File("object", json_dump(jobs_cache), TRUE)

\* C7: the (snapshot, loaded) pair a list request obtains is a pair that one
\* hydrate or one replace installed together.
C7_ReadAtomic ==
    \A h \in Handlers :
        pc[h] \in {"respond", "done"} =>
            Pair(rd[h].current_jobs, rd[h].loaded) = rd[h].inst

\* a request holds its pair while a refresh loop is in the middle of the
\* next install
C7_Witness ==
    \E h \in Handlers, r \in Loops :
        /\ pc[h] = "respond"
        /\ pc[r] = "swap2"
        /\ jobs_cache # rd[h].current_jobs
        /\ jobs_loaded # upd[r].mark

\* C8: in every refresh cycle, from the moment page i has been processed (its
\* records appended and the replace done) until page i+1 has been, the cache
\* a read returns is dedupe/sort/truncate of the records of pages 1..i of
\* that cycle.
C8_PartialProgressVisible ==
    \A r \in Loops :
        (/\ pc[r] \in {"scrape", "final"}
         /\ lp[r].page >= 2
         /\ lp[r].outcomes[lp[r].page - 1] # "raise")
            => jobs_cache = Snapshot(lp[r].local_jobs)

\* the records of pages 1..n of a cycle whose pages ended as `outcomes` says
RECURSIVE Expected(_, _)
Expected(outcomes, n) ==
    IF n = 0 THEN <<>>
    ELSE Expected(outcomes, n - 1) \o PageJobs(n, outcomes[n])

InCycle(r) == pc[r] \in {"scrape", "swap1", "swap2", "persist", "final", "finally"}

\* the final replace of the cycle of r is installing or has installed
PastLastPage(r) ==
    \/ pc[r] \in {"final", "finally", "sleep"}
    \/ pc[r] \in {"swap1", "swap2", "persist"} /\ upd[r].mark

C9_CycleState ==
    \A r \in Loops :
        /\ InCycle(r) =>
              /\ Len(lp[r].outcomes) <= NumPages
              /\ lp[r].local_jobs = Expected(lp[r].outcomes, Len(lp[r].outcomes))
        /\ pc[r] = "scrape" => Len(lp[r].outcomes) = lp[r].page - 1
        /\ PastLastPage(r) => Len(lp[r].outcomes) = NumPages
        /\ (pc[r] = "swap2" /\ upd[r].mark) =>
              jobs_cache = Snapshot(Expected(lp[r].outcomes, NumPages))

C9_FinalReplace ==
    \A r \in Loops :
        (pc[r] = "swap2" /\ upd[r].mark /\ pc'[r] # "swap2") =>
            /\ jobs_loaded'
            /\ jobs_cache' = Snapshot(Expected(lp[r].outcomes, NumPages))
            /\ pc'[r] = "persist"

\* C9: whatever pages fail in a cycle (fetch or parse), a failing page adds
\* no record to the accumulator, every page is processed in the fixed order,
\* and the cycle ends with the replace of the accumulator with
\* mark_loaded = True; no page failure ends the cycle early.
C9_FailureIsolation == []C9_CycleState /\ [][C9_FinalReplace]_vars

\* a cycle whose first page raised and whose last page could not be fetched
\* has done its final replace
C9_Witness ==
    \E r \in Loops :
        /\ pc[r] = "finally"
        /\ lp[r].outcomes[1] = "raise"
        /\ lp[r].outcomes[NumPages] = "nofetch"

\* C10: from the start of a refresh cycle until its final replace, every
\* record the cache held when the cycle started is still in the cache.
C10_StaleDataKept ==
    \A r \in Loops :
        (/\ pc[r] \in {"scrape", "swap1", "swap2", "persist", "final"}
         /\ ~upd[r].mark)
            => Range(lp[r].start) \subseteq Range(jobs_cache)

(***************************************************************************)
(* Properties of the flags loaded and loading (Spec, SpecRace)             *)
(***************************************************************************)
\* loop r has done the final replace (mark_loaded = True) of some cycle
FinalReplaceDone(r) ==
    \/ lp[r].cycle >= 2
    \/ /\ lp[r].cycle = 1
       /\ \/ pc[r] \in {"finally", "sleep", "cycle_start"}
          \/ pc[r] = "persist" /\ upd[r].mark

\* loop r has ended a cycle: run_full_scrape returned and `finally` ran
CycleCompleted(r) ==
    \/ lp[r].cycle >= 2
    \/ lp[r].cycle = 1 /\ pc[r] \in {"sleep", "cycle_start"}

\* C11: in every reachable state jobs_loaded is true only if some refresh
\* cycle has run through its last page and done the final replace with
\* mark_loaded = True; the hydrate from disk and the incremental replaces
\* never make it true.
C11_LoadedMeansCycleDone ==
    jobs_loaded => \E r \in Loops : FinalReplaceDone(r)

\* C12: once jobs_loaded is true it is true in every later state: a replace
\* with mark_loaded = False (an incremental replace of a cycle, the
\* quick-scrape seed of a request) leaves it as it is.
C12_LoadedStaysTrue == [][jobs_loaded => jobs_loaded']_vars

\* C13: a list response built while no refresh cycle has completed yet, or
\* while a cycle is in progress, carries loading = true, also after a
\* hydrate from disk and for the request that starts the loop.
C13_LoadingUntilFirstCycle ==
    [][\A h \in Handlers :
          (/\ pc[h] = "respond"
           /\ pc'[h] = "done"
           /\ \/ \A r \in Loops : ~CycleCompleted(r)
              \/ \E r \in Loops : InCycle(r))
             => rd'[h].loading_flag]_vars

\* C14: jobs_loading is true from the start of a refresh cycle to its end,
\* whatever the pages of the cycle do, and false whenever a refresh loop
\* sleeps between two cycles.
C14_LoadingFollowsCycle ==
    \A r \in Loops :
        /\ InCycle(r) => jobs_loading
        /\ pc[r] = "sleep" => ~jobs_loading

\* C15: however the first list requests interleave, at most one refresh loop
\* thread is ever started, so at most one refresh cycle is in progress.
C15_OneLoopThread ==
    /\ Cardinality({r \in Loops : pc[r] # "off"}) <= 1
    /\ Cardinality({r \in Loops : InCycle(r)}) <= 1

(***************************************************************************)
(* Properties of the cache file (Spec)                                     *)
(***************************************************************************)
\* C16: when update_cache_snapshot has installed a snapshot S and
\* persist_jobs_cache has written it, load_jobs_cache_from_disk run by a
\* fresh process on the written file installs a snapshot equal to S: the
\* same records in the same order.
C16_PersistHydrateRoundTrip ==
    [][\A t \in Threads :
          (/\ pc[t] = "persist"
           /\ pc'[t] # "persist"
           /\ file' = File("object", json_dump(upd[t].deduped), TRUE))
             => /\ Loadable(file')
                /\ HydrateSnapshot(file') = upd[t].deduped]_vars

\* the file holds the snapshot of the cache, written by this process: as many
\* records as the cache keeps, the first two with the same sort key
C16_Witness ==
    /\ file = File("object", json_dump(jobs_cache), TRUE)
    /\ Len(jobs_cache) = MAX_JOBS_TO_CACHE
    /\ Len(jobs_cache) >= 2
    /\ default_last_date_key(jobs_cache[1]) = default_last_date_key(jobs_cache[2])

(***************************************************************************)
(* Properties of the window of api_jobs (SpecPage)                         *)
(***************************************************************************)
\* C17: for a deduplicated snapshot of N records, an offset o >= 0 and a
\* limit l with 1 <= l <= MAX_JOBS_TO_CACHE, the response holds the records
\* at the indices o .. min(o+l, N)-1 in snapshot order (none when o >= N),
\* and next_offset is min(o+l, N) when that is less than N and null
\* otherwise.
C17_Pagination ==
    (/\ pstage = "out"
     /\ query.offset.kind = "int" /\ query.offset.val >= 0
     /\ query.limit.kind = "int"
     /\ query.limit.val >= 1 /\ query.limit.val <= MAX_JOBS_TO_CACHE)
        => LET N == Len(page_in)
               o == query.offset.val
               l == query.limit.val
               stop == IF o + l < N THEN o + l ELSE N
           IN  /\ Len(resp.jobs) = (IF o >= N THEN 0 ELSE stop - o)
               /\ \A k \in 1..Len(resp.jobs) : resp.jobs[k] = page_in[o + k]
               /\ resp.next_offset = (IF stop < N THEN <<stop>> ELSE <<>>)

\* a window that ends before the end of the snapshot was cut: records remain
\* and next_offset says where they start
C17_Witness ==
    /\ pstage = "out"
    /\ query.offset = [kind |-> "int", val |-> 0]
    /\ query.limit = [kind |-> "int", val |-> 1]
    /\ Len(page_in) >= 2
    /\ resp.jobs = <<page_in[1]>>
    /\ resp.next_offset = <<1>>

(***************************************************************************)
(* Properties of fetch_job_details (SpecDetails)                           *)
(***************************************************************************)
Fetched == dstage = "out" /\ det_in.url # "" /\ det_in.outcome = "ok"

\* the details after the table pass alone
TableDetails ==
    TablePass(Put(NewDetails(det_in.url), "html", "text"),
              parse_table_kv(det_in.page), 1)

\* C18: for each of postName, noOfPosts, salary, qualification, ageLimit and
\* lastDate, when the table key/value scan produced a value the returned
\* details hold that value, also when a `label: value` line for the same
\* field is on the page: a later pass fills only fields not yet set.
C18_TableValueWins ==
    Fetched =>
        \A f \in {"postName", "noOfPosts", "salary", "qualification", "ageLimit",
                  "lastDate"} :
            f \in DOMAIN TableDetails => details[f] = TableDetails[f]

\* C19: when the fetch of the post page fails, the details returned have the
\* single key url, with the requested URL, and no other field.
C19_FailureUrlOnly ==
    (dstage = "out" /\ det_in.url # "" /\ det_in.outcome = "fail")
        => /\ DOMAIN details = {"url"}
           /\ details["url"] = det_in.url

\* C19 as the code has it: when the fetch of the post page fails, the details
\* returned have the two keys url and html, url with the requested URL and
\* html with the empty string, and no extracted field.
C19_FailureUrlAndEmptyHtml ==
    (dstage = "out" /\ det_in.url # "" /\ det_in.outcome = "fail")
        => /\ DOMAIN details = {"url", "html"}
           /\ details["url"] = det_in.url
           /\ details["html"] = ""

\* the fetch of a page with tables, lines or links failed
C19_Witness ==
    /\ dstage = "out"
    /\ det_in.url # ""
    /\ det_in.outcome = "fail"
    /\ det_in.page.elements # <<>>
    /\ DOMAIN details = {"url", "html"}

LinksOfType(type) ==
    SelectSeq(details["importantLinks"], LAMBDA l : l.type = type)

NoDupUrls(links) ==
    \A i, j \in 1..Len(links) : i # j => links[i].url # links[j].url

\* C20: for every fetched post page, the details carry
\* officialNotificationStatus = "Official Notification PDF : N/A" if and only
\* if importantLinks has no entry of type officialNotification; there are at
\* most 2 official-website links and at most 2 notification links, and no
\* URL twice within a kind.
C20_LinksAndStatus ==
    Fetched =>
        /\ "officialNotificationStatus" \in DOMAIN details
              <=> LinksOfType("officialNotification") = <<>>
        /\ "officialNotificationStatus" \in DOMAIN details
              => details["officialNotificationStatus"] = "Official Notification PDF : N/A"
        /\ Len(LinksOfType("officialWebsite")) <= 2
        /\ Len(LinksOfType("officialNotification")) <= 2
        /\ NoDupUrls(LinksOfType("officialWebsite"))
        /\ NoDupUrls(LinksOfType("officialNotification"))
        /\ details["officialWebsites"] =
              [n \in 1..Len(LinksOfType("officialWebsite")) |->
                  LinksOfType("officialWebsite")[n].url]

\* a page on which two anchors give the same notification URL and a third
\* another one, and on which more than two official sites are found
C20_Witness ==
    /\ Fetched
    /\ Len(LinksOfType("officialNotification")) = 2
    /\ Len(LinksOfType("officialWebsite")) = 2
    /\ \E i, j \in 1..Len(Anchors(det_in.page)) :
          /\ i # j
          /\ EndsWithPdf(normalize_url(Anchors(det_in.page)[i].href))
          /\ normalize_url(Anchors(det_in.page)[i].href)
                = normalize_url(Anchors(det_in.page)[j].href)
          /\ Anchors(det_in.page)[i].href # Anchors(det_in.page)[j].href

(***************************************************************************)
(* Properties of the page parsers (SpecScrape)                             *)
(***************************************************************************)
Scraped(parser) ==
    sstage = "out" /\ scr_in.parser = parser /\ scr_in.outcome = "ok"

\* a row that contains a details anchor and has at least 6 cells
IsDetailsRow(item) ==
    item.tr /\ item.links # <<>> /\ Len(item.cells) >= 6

DetailsRows(page) == SelectSeq(page, IsDetailsRow)

\* the ISO date of a text that is a valid dd-mm-yyyy date, else ""
FromDmy(cell) ==
    IF cell.txt = "dd-mm-yyyy" /\ cell.dmy[2] \in 1..12
       /\ cell.dmy[1] \in 1..DaysIn(cell.dmy[2], cell.dmy[3])
    THEN IsoDate(cell.dmy[3], cell.dmy[2], cell.dmy[1])
    ELSE Text("")

RowRecordsOf(rows) ==
    /\ Len(scr_out) = Len(rows)
    /\ \A i \in 1..Len(rows) :
         /\ i <= Len(scr_out)
         /\ scr_out[i].board = rows[i].cells[2]
         /\ scr_out[i].title = rows[i].cells[3]
         /\ scr_out[i].qualification = rows[i].cells[4]
         /\ scr_out[i].lastDate = FromDmy(rows[i].cells[6])
         /\ scr_out[i].state = scr_in.state

\* C21: the records of a table page are, in page order, exactly one record
\* for every row that contains a details anchor and has at least 6 cells,
\* with board, title and qualification from cells 1, 2 and 3, lastDate the
\* coercion of cell 5 and state the forced state; rows with fewer cells give
\* no record.
C21_OneRecordPerRow ==
    Scraped("table") => RowRecordsOf(DetailsRows(scr_in.page))

\* the same for the pages whose rows hold one details anchor at most
C21_OneRecordPerSingleAnchorRow ==
    (Scraped("table") /\ \A i \in 1..Len(scr_in.page) :
                            Len(scr_in.page[i].links) <= 1)
        => RowRecordsOf(DetailsRows(scr_in.page))

\* a page with a short row before a row that gives a record
C21_ShortRowSkipped ==
    /\ Scraped("table")
    /\ Len(scr_in.page) = 2
    /\ Len(scr_in.page[1].cells) = 5 /\ scr_in.page[1].links # <<>>
    /\ Len(scr_out) = 1

\* the words of a segment that are not the literal "District" or "State"
IsOtherWord(w) == w \notin {"District", "State"}
LiteralStripped(words) == SelectSeq(words, IsOtherWord)

\* the words at the positions of I, in order
RECURSIVE WordsAt(_, _, _)
WordsAt(words, I, i) ==
    IF i > Len(words) THEN <<>>
    ELSE (IF i \in I THEN <<words[i]>> ELSE <<>>) \o WordsAt(words, I, i + 1)

\* the positions of the words that are neither "district" nor "state" in any
\* case nor followed by the word "district"
KeptWords(words) ==
    { i \in 1..Len(words) :
        /\ Lower(words[i]) \notin {"district", "state"}
        /\ ~(i < Len(words) /\ Lower(words[i + 1]) = "district") }

\* C22 as stated: the state of a search record is the forced state when one
\* is given; otherwise, when the location has a comma, its last segment
\* without the literal substrings "District" and "State" and with every
\* other word kept; otherwise absent.
C22_StateLiteralStripped ==
    Scraped("search") =>
        \A i \in 1..Len(scr_out) :
            LET loc == scr_in.page[i].location
            IN  IF TruthyStr(scr_in.state) THEN scr_out[i].state = scr_in.state
                ELSE IF Len(loc) >= 2 /\ LiteralStripped(loc[Len(loc)]) # <<>>
                     THEN scr_out[i].state = Str(LiteralStripped(loc[Len(loc)]))
                ELSE ~TruthyStr(scr_out[i].state)

\* C22, amended: the state of a search record is the forced state when it is
\* a non-empty string; otherwise, when the location has a comma, it is the
\* last segment without the words "District" and "State" (in any case) and
\* without the word before each "District", and absent when nothing is
\* left; otherwise it is the forced value (absent or empty).
C22_StateInferred ==
    Scraped("search") =>
        \A i \in 1..Len(scr_out) :
            LET loc == scr_in.page[i].location
                last == loc[Len(loc)]
                kept == WordsAt(last, KeptWords(last), 1)
            IN  IF TruthyStr(scr_in.state) THEN scr_out[i].state = scr_in.state
                ELSE IF Len(loc) >= 2
                     THEN scr_out[i].state = (IF kept # <<>> THEN Str(kept)
                                              ELSE None)
                ELSE scr_out[i].state = scr_in.state

\* a block in "Kochi, Pune District Kerala" without forced state: "Kerala"
C22_Witness ==
    /\ Scraped("search")
    /\ scr_in.state = None
    /\ Len(scr_out) = 1
    /\ scr_in.page[1].location = << <<"Kochi">>, <<"Pune", "District", "Kerala">> >>
    /\ scr_out[1].state = Str(<<"Kerala">>)

(***************************************************************************)
(* The sources of a refresh cycle (Spec)                                   *)
(***************************************************************************)
\* what scrape_indgovtjobs_latest_all_india returns for the IndGovtJobs page
\* when its fetch succeeds: records with the source "IndGovtJobs"
IndGovtJobsPage == << Rec("i", "T", 20260401, "IndGovtJobs") >>

AllFetched(r) ==
    /\ Len(lp[r].outcomes) = NumPages
    /\ \A n \in 1..NumPages : lp[r].outcomes[n] = "ok"

\* C23: after a cycle in which every fetch succeeds, the records of the
\* IndGovtJobs page are part of the accumulator from which the final
\* snapshot is made.
C23_BothSitesAggregated ==
    \A r \in Loops :
        (PastLastPage(r) /\ AllFetched(r)) =>
            \A i \in 1..Len(IndGovtJobsPage) :
                IndGovtJobsPage[i] \in Range(lp[r].local_jobs)

(***************************************************************************)
(* The lock, the file and the seeding of the cache (Spec)                  *)
(***************************************************************************)
\* a thread that holds scrape_lock is inside one of the two `with` blocks,
\* past the first statement; a thread at the entry of a block does not hold it
LockHeldInBlock ==
    \A t \in Threads :
        /\ scrape_lock = t => pc[t] \in {"swap2", "read2"}
        /\ pc[t] \in {"swap1", "read1"} => scrape_lock # t

\* the step of a thread that holds the lock leaves the file alone, fetches
\* and parses nothing (no frame or accumulator changes) and releases the lock
LockedStepInMemory ==
    \A t \in Threads :
        (scrape_lock = t /\ pc'[t] # pc[t]) =>
            /\ file' = file
            /\ upd' = upd /\ lp' = lp
            /\ scrape_lock' = NoThread

\* C25: no thread holds scrape_lock while a fetch, a parse or a disk write
\* of it is in progress, and no thread waits for the lock while holding it:
\* the lock is held for the in-memory swap and the in-memory copy only.
C25_LockOnlyInMemory == []LockHeldInBlock /\ [][LockedStepInMemory]_vars

\* a loop is inside the swap while the handler waits at the entry of its
\* read block
C25_Witness ==
    \E r \in Loops, h \in Handlers :
        /\ scrape_lock = r
        /\ pc[r] = "swap2"
        /\ pc[h] = "read1"

\* thread t leaves persist_jobs_cache with the write not done
WriteFails(t) ==
    pc[t] = "persist" /\ pc'[t] # "persist" /\ ~Written(file', upd[t].deduped)

\* the step is what it is when the write is done: memory as the swap left
\* it, and the caller goes on (a loop with its next page or the final replace)
AsIfWritten(t) ==
    /\ jobs_cache' = jobs_cache /\ jobs_loaded' = jobs_loaded
    /\ t \in Handlers => pc'[t] = "read1"
    /\ (t \in Loops /\ upd[t].mark) => pc'[t] = "finally"
    /\ (t \in Loops /\ ~upd[t].mark) =>
          /\ pc'[t] = (IF lp[t].page < NumPages THEN "scrape" ELSE "final")
          /\ lp'[t].page = lp[t].page + 1
          /\ lp'[t].local_jobs = lp[t].local_jobs

\* C26: when the write of the file fails during a replace, the snapshot in
\* memory and the loaded flag are as if it had succeeded, no error reaches
\* the caller, and the cycle goes on with the next page.
C26_PersistFailureNotFatal ==
    [][\A t \in Threads : WriteFails(t) => AsIfWritten(t)]_vars

\* the write after page 1 failed part-way: the file holds no JSON, the cache
\* holds the page's snapshot and the loop is about to scrape page 2
C26_Witness ==
    \E r \in Loops :
        /\ file = FailedWrite(File("invalid", <<>>, TRUE))
        /\ pc[r] = "scrape" /\ lp[r].page = 2
        /\ jobs_cache # <<>>
        /\ jobs_cache = Snapshot(lp[r].local_jobs)

\* the step of load_jobs_cache_from_disk
HydrateStep == boot = "init" /\ boot' = "ready"

\* C27: the hydrate accepts two shapes of the file, an object with a list
\* under "jobs" and a bare list, and installs the same snapshot for the same
\* records with loaded true; for every other file (absent, not JSON, "jobs"
\* missing or not a list, elements that are not records) it leaves the
\* snapshot and the loaded flag as they are; it runs before any request is
\* handled and any loop is started.
C27_HydrateTwoShapes ==
    /\ [][HydrateStep =>
            IF file.shape \in {"object", "array"}
            THEN /\ jobs_cache' = Snapshot(json_load(file.jobs))
                 /\ jobs_loaded'
            ELSE /\ jobs_cache' = jobs_cache
                 /\ jobs_loaded' = jobs_loaded]_vars
    /\ [](boot = "init" =>
            /\ ~scrape_thread_started
            /\ \A t \in Threads : pc[t] \in {"idle", "none", "off"})

\* no thread is inside update_cache_snapshot
NoReplaceInProgress ==
    \A t \in Threads : pc[t] \notin {"swap1", "swap2", "persist"}

\* the latest write of the file by this process completed
LastWriteSucceeded == file.written /\ ~file.failed /\ file.shape = "object"

\* C29: whenever no replace is in progress and the last write of the file
\* succeeded, the list of jobs in the file is the snapshot in memory.
C29_FileFollowsMemory ==
    (NoReplaceInProgress /\ LastWriteSucceeded) =>
        json_load(file.jobs) = jobs_cache

\* C30, first part: a handler that seeds the cache does not replace a
\* snapshot that is not empty.
C30_SeedKeepsNonEmpty ==
    \A h \in Handlers :
        (pc[h] = "swap1" /\ pc'[h] = "swap2" /\ jobs_cache # <<>>) =>
            jobs_cache' = jobs_cache

\* C30, second part: a list request that finds the cache non-empty leaves
\* snapshot, loaded flag and file as they are.
C30_ReadOnlyWhenNonEmpty ==
    \A h \in Handlers :
        (pc[h] \in {"check_empty", "read1", "read2", "respond", "done"}
         /\ pc'[h] # pc[h] /\ pc'[h] # "quick") =>
            /\ jobs_cache' = jobs_cache
            /\ jobs_loaded' = jobs_loaded
            /\ file' = file

\* C30: a list request writes the cache only to seed an empty cache.
C30_SeedOnlyEmptyCache ==
    [][C30_SeedKeepsNonEmpty /\ C30_ReadOnlyWhenNonEmpty]_vars

(***************************************************************************)
(* Date coercion (SpecDetails, SpecScrape)                                 *)
(***************************************************************************)
\* a valid ISO date or the empty string
IsoOrEmpty(v) ==
    \/ v = Text("")
    \/ /\ v.txt = "iso" /\ v.dmy = <<>>
       /\ ValidDate(v.iso % 100, (v.iso \div 100) % 100, v.iso \div 10000)

\* C28: every date field is a valid ISO date or the empty string: startDate
\* and lastDate of the details of a fetched post, and the lastDate of every
\* record of a page parser; a text that is no date in the expected format
\* gives the empty string, never the text itself.
C28_DatesIsoOrEmpty ==
    /\ Fetched =>
          \A k \in {"startDate", "lastDate"} \cap DOMAIN details :
              IsoOrEmpty(details[k])
    /\ sstage = "out" =>
          \A i \in 1..Len(scr_out) : IsoOrEmpty(scr_out[i].lastDate)

\* the part of C28 about the three page parsers
C28_ParserDatesIsoOrEmpty ==
    sstage = "out" => \A i \in 1..Len(scr_out) : IsoOrEmpty(scr_out[i].lastDate)

(***************************************************************************)
(* The refresh loop goes on (SpecLive)                                     *)
(***************************************************************************)
\* the final replace of loop r has just set jobs_loaded
FinalReplaceSetsLoaded(r) ==
    pc[r] = "persist" /\ upd[r].mark /\ jobs_loaded

\* C24: the refresh loop does not end on its own: a started loop stays
\* started, after every sleep another cycle starts, and from every state of
\* a started loop a final replace of it sets loaded true later on; so the
\* loop runs cycles without end and sets loaded true again and again.
C24_LoopNeverStops ==
    /\ \A r \in LiveLoops : (pc[r] # "off") ~> FinalReplaceSetsLoaded(r)
    /\ [][\A r \in Loops :
            /\ pc[r] = "sleep" => pc'[r] \in {"sleep", "cycle_start"}
            /\ pc[r] # "off" => pc'[r] # "off"]_vars

\* a loop does the final replace of a cycle after its first MaxCycles cycles
C24_Witness ==
    \E r \in Loops :
        lp[r].cycle = MaxCycles + 1 /\ FinalReplaceSetsLoaded(r)

=============================================================================
